---------------------------- MODULE Spec2Model ----------------------------
(***************************************************************************)
(* A model of the federated lightweight chat node: vector clock engine,    *)
(* node state, SQLite persistence, the gossip (anti-entropy) service, the  *)
(* replication / send / sync routes and the node lifecycle orchestrator.   *)
(*                                                                         *)
(* Conventions.  A Python dict is a TLA+ function whose DOMAIN is the set  *)
(* of keys that are present.  A node process is identified by the user id  *)
(* it runs under (settings.node_id); the same name stands for its          *)
(* advertised address.  A process is always initialised under its own id   *)
(* when it is not Ready; initialize on a Ready node takes any id.          *)
(* Coroutine code between two awaits is one atomic action (cooperative     *)
(* scheduling); every await that really suspends separates two actions.    *)
(***************************************************************************)
EXTENDS Integers, Sequences, FiniteSets, TLC

\* ----------------------------------------------------------------- universe
Nodes == {"alice", "bob", "carol"}
\* the node under study, and the two nodes of the mesh specification
Focus == "alice"
MeshNodes == {"alice", "bob"}
Others == Nodes \ {Focus}
Rooms == {"general", "dev"}
Contents == {"hi"}
\* rooms used by the clients of the mesh specification
MeshRooms == {"general"}

\* Bounds of the explored behaviours (not program constants).
MaxMsgs == 2
MaxTime == 2
MaxCount == 2

\* StorageService.get_all_messages(limit=100, offset=0)
DefaultLimit == 100
DefaultOffset == 0
\* GossipService.sync_room_messages: params limit, fan-out of the pull
SyncLimit == 100
SyncFanout == 3

\* settings.advertised_addr of a process; a node's address is written as
\* its name
NodeAddr(p) == p

\* an entry of a peer list that spells the address of carol with a trailing
\* slash
SlashAddr == "carol/"

\* target.rstrip("/")
RStrip(url) == IF url = SlashAddr THEN "carol" ELSE url

\* settings.peers of a process: the configured mesh, own address included;
\* the list of carol spells her own address with the trailing slash.
Peers(p) == IF p = "carol" THEN (Nodes \ {"carol"}) \cup {SlashAddr} ELSE Nodes

\* The value None of an Optional attribute.
None == [none |-> TRUE]

\* dict.get(k, default)
Get(d, k, default) == IF k \in DOMAIN d THEN d[k] ELSE default

Max(a, b) == IF a >= b THEN a ELSE b

\* d[k] = v on a dict (adds the key when absent)
Put(d, k, v) == [x \in DOMAIN d \cup {k} |-> IF x = k THEN v ELSE d[x]]

\* ------------------------------------------------------ vector clock engine
\* VectorClockService.increment
Increment(clock, node_id) == Put(clock, node_id, Get(clock, node_id, 0) + 1)

\* a merge that keeps the left clock's counter wherever the left clock has the key
MergeLeftFirst(clock_a, clock_b) ==
    [node \in DOMAIN clock_a \cup DOMAIN clock_b |->
        IF node \in DOMAIN clock_a THEN clock_a[node] ELSE clock_b[node]]

\* VectorClockService.merge
Merge(clock_a, clock_b) ==
    [node \in DOMAIN clock_a \cup DOMAIN clock_b |->
        Max(Get(clock_a, node, 0), Get(clock_b, node, 0))]

\* a compare that walks the keys of its first argument only
CompareLeftKeys(vc_a, vc_b) ==
    LET keys == DOMAIN vc_a
        le_a_b == \A k \in keys : ~(Get(vc_a, k, 0) > Get(vc_b, k, 0))
        le_b_a == \A k \in keys : ~(Get(vc_b, k, 0) > Get(vc_a, k, 0))
    IN  IF le_a_b /\ le_b_a THEN "EQUAL"
        ELSE IF le_a_b THEN "BEFORE"
        ELSE IF le_b_a THEN "AFTER"
        ELSE "CONCURRENT"

\* VectorClockService.compare
Compare(vc_a, vc_b) ==
    LET keys == DOMAIN vc_a \cup DOMAIN vc_b
        le_a_b == \A k \in keys : ~(Get(vc_a, k, 0) > Get(vc_b, k, 0))
        le_b_a == \A k \in keys : ~(Get(vc_b, k, 0) > Get(vc_a, k, 0))
    IN  IF le_a_b /\ le_b_a THEN "EQUAL"
        ELSE IF le_a_b THEN "BEFORE"
        ELSE IF le_b_a THEN "AFTER"
        ELSE "CONCURRENT"

\* ---------------------------------------------------------------- NodeState
\* NodeState(node_id=user_id, room_clocks={})
NewNodeState(node_id) == [node_id |-> node_id, room_clocks |-> <<>>]

\* a join_room that seeds the clock again when the room is already joined
JoinRoomResetting(st, room_id) ==
    [st EXCEPT !.room_clocks = Put(@, room_id, Put(<<>>, st.node_id, 0))]

\* NodeState.join_room
JoinRoom(st, room_id) ==
    IF room_id \notin DOMAIN st.room_clocks
    THEN [st EXCEPT !.room_clocks = Put(@, room_id, Put(<<>>, st.node_id, 0))]
    ELSE st

\* NodeState.get_clock
GetClock(st, room_id) == Get(st.room_clocks, room_id, Put(<<>>, st.node_id, 0))

\* an update_clock that stores the remote clock in place of the merge
UpdateClockOverwrite(st, room_id, remote_clock) ==
    [st EXCEPT !.room_clocks = Put(@, room_id, remote_clock)]

\* NodeState.update_clock (the state after the call)
UpdateClock(st, room_id, remote_clock) ==
    [st EXCEPT !.room_clocks = Put(@, room_id, Merge(GetClock(st, room_id), remote_clock))]

\* an increment_clock that bumps the node's counter in every room it tracks
IncrementClockAllRooms(st, room_id) ==
    [st EXCEPT !.room_clocks =
        [r \in DOMAIN @ \cup {room_id} |-> Increment(GetClock(st, r), st.node_id)]]

\* an increment_clock that builds the new clock from the own counter alone
IncrementClockDropping(st, room_id) ==
    [st EXCEPT !.room_clocks =
        Put(@, room_id,
            Put(<<>>, st.node_id, Get(GetClock(st, room_id), st.node_id, 0) + 1))]

\* NodeState.increment_clock (the state after the call)
IncrementClock(st, room_id) ==
    [st EXCEPT !.room_clocks = Put(@, room_id, Increment(GetClock(st, room_id), st.node_id))]

\* ----------------------------------------------------------- StorageService
\* A row of the messages table / a Message object.
Message(id, room_id, sender_id, content, vector_clock, created_at) ==
    [message_id |-> id, room_id |-> room_id, sender_id |-> sender_id,
     content |-> content, vector_clock |-> vector_clock, created_at |-> created_at]

\* The messages table is kept as the sequence of its rows in the order of
\* the index on created_at (rows with equal created_at in message_id order),
\* which is the order of every `ORDER BY created_at ASC` query.
RowBefore(a, b) ==
    \/ a.created_at < b.created_at
    \/ a.created_at = b.created_at /\ a.message_id < b.message_id

\* the primary keys of the table
Ids(tbl) == {tbl[i].message_id : i \in DOMAIN tbl}

\* the row of a stored message_id
Row(tbl, message_id) == tbl[CHOOSE i \in DOMAIN tbl : tbl[i].message_id = message_id]

\* StorageService.message_exists
MessageExists(tbl, message_id) == \E i \in DOMAIN tbl : tbl[i].message_id = message_id

\* add_message as INSERT OR REPLACE: a stored row gives way to the new one
AddMessageReplacing(tbl, message) ==
    LET kept == SelectSeq(tbl, LAMBDA row : row.message_id # message.message_id)
        k == Cardinality({i \in DOMAIN kept : RowBefore(kept[i], message)})
    IN  SubSeq(kept, 1, k) \o <<message>> \o SubSeq(kept, k + 1, Len(kept))

\* StorageService.add_message: INSERT OR IGNORE
AddMessage(tbl, message) ==
    IF \E i \in DOMAIN tbl : tbl[i].message_id = message.message_id THEN tbl
    ELSE LET k == Cardinality({i \in DOMAIN tbl : RowBefore(tbl[i], message)})
         IN  SubSeq(tbl, 1, k) \o <<message>> \o SubSeq(tbl, k + 1, Len(tbl))

\* json.dumps of a clock: the text of a JSON object, as the set of its
\* "key": value members
JsonDumps(vector_clock) == {<<k, vector_clock[k]>> : k \in DOMAIN vector_clock}

\* json.loads of such a text: the dict of its members
JsonLoads(text) ==
    [k \in {member[1] : member \in text} |-> (CHOOSE member \in text : member[1] = k)[2]]

\* save_snapshot as INSERT OR IGNORE: the first row of a room stays
SaveSnapshotIgnoring(snaps, room_id, vector_clock, current_time) ==
    IF room_id \in DOMAIN snaps THEN snaps
    ELSE Put(snaps, room_id, [vector_clock |-> JsonDumps(vector_clock),
                              last_processed_time |-> current_time])

\* StorageService.save_snapshot: INSERT OR REPLACE, stamped with time.time()
SaveSnapshot(snaps, room_id, vector_clock, current_time) ==
    Put(snaps, room_id, [vector_clock |-> JsonDumps(vector_clock),
                         last_processed_time |-> current_time])

\* StorageService.load_snapshot: (clock, time) or (None, 0.0)
LoadSnapshot(snaps, room_id) ==
    IF room_id \in DOMAIN snaps
    THEN <<JsonLoads(snaps[room_id].vector_clock), snaps[room_id].last_processed_time>>
    ELSE <<None, 0>>

\* LIMIT ? OFFSET ?
LimitOffset(seq, limit, offset) ==
    SubSeq(seq, offset + 1, IF Len(seq) < offset + limit THEN Len(seq) ELSE offset + limit)

\* StorageService.get_all_messages
GetAllMessages(tbl, limit, offset) == LimitOffset(tbl, limit, offset)

\* StorageService.get_all_room_messages
GetAllRoomMessages(tbl, room_id, limit, offset) ==
    LimitOffset(SelectSeq(tbl, LAMBDA row : row.room_id = room_id), limit, offset)

\* get_messages_after with created_at >= ?
GetMessagesAfterInclusive(tbl, room_id, timestamp) ==
    SelectSeq(tbl, LAMBDA row : row.room_id = room_id /\ row.created_at >= timestamp)

\* StorageService.get_messages_after: strictly after the timestamp
GetMessagesAfter(tbl, room_id, timestamp) ==
    SelectSeq(tbl, LAMBDA row : row.room_id = room_id /\ row.created_at > timestamp)

\* get_all_room_ids over the messages table alone
GetAllRoomIdsOfMessages(tbl, snaps) == {tbl[i].room_id : i \in DOMAIN tbl}

\* StorageService.get_all_room_ids: rooms of messages and of snapshots
GetAllRoomIds(tbl, snaps) == {tbl[i].room_id : i \in DOMAIN tbl} \cup DOMAIN snaps


\* -------------------------------------------------------------------- state
VARIABLES
    state,      \* LocalNodeService._state of each process: None or a NodeState
    storage,    \* LocalNodeService._storage is set
    messages,   \* the messages table of each node's database, in index order
    snapshots,  \* the snapshots table of each node's database, by room_id
    running,    \* GossipService._running
    task,       \* position of the gossip task (GossipService.start coroutine)
    cancelReq,  \* Task.cancel() was requested on the gossip task
    pushTarget, \* _push_data: target of the push in progress
    pushQ,      \* _push_data: messages of the cycle not yet posted
    syncRoom,   \* sync_room_messages: room being pulled
    syncQ,      \* sync_room_messages: sampled targets not yet queried
    syncOk,     \* sync_room_messages: the last target queried answered with 200
    shut,       \* position of LocalNodeService.shutdown
    now,        \* time.time()
    nextId,     \* next fresh uuid4 message id
    pubs,       \* number of manager.publish calls, per node and message id
    firstResp,  \* status the replication endpoint gave to the first delivery of an id
    dupResp,    \* statuses it gave to the later deliveries of that id
    lastCall,   \* the last lifecycle call that returned at each process: initialize
                \* (with its argument and outcome) or shutdown
    stopReq,    \* GossipService.stop() was called on the current service
    cycle,      \* the last push cycle: its outcome, the ids of the store at its start
                \* not yet requested, whether some request was not for such an id,
                \* and the ids whose post raised httpx.HTTPError
    errCaught,  \* the gossip task has caught an error in some cycle
    ret,        \* the last direct call on a component: its arguments and result
    active_connections, \* ConnectionManager.active_connections: room -> list of sockets
    pubsub_tasks,       \* ConnectionManager.pubsub_tasks: room -> listener task
    accepting,  \* connect calls suspended in `await websocket.accept()`
    listeners,  \* the listener tasks ever created: room, position, cancel requested,
                \* subscribe() was called, unsubscribe() was called
    sent,       \* what send_json was awaited with, per socket
    heard,      \* the bus messages handed to listener tasks, in order
    peerRows    \* the committed rows of the peers table of each node's database

vars == <<state, storage, messages, snapshots, running, task, cancelReq, pushTarget,
          pushQ, syncRoom, syncQ, syncOk, shut, now, nextId, pubs, firstResp, dupResp,
          lastCall, stopReq, cycle, errCaught, ret,
          active_connections, pubsub_tasks, accepting, listeners, sent, heard, peerRows>>

\* the connection manager of the node and its bus
wsVars == <<active_connections, pubsub_tasks, accepting, listeners, sent, heard>>

\* every variable but ret
sysVars == <<state, storage, messages, snapshots, running, task, cancelReq, pushTarget,
             pushQ, syncRoom, syncQ, syncOk, shut, now, nextId, pubs, firstResp, dupResp,
             lastCall, stopReq, cycle, errCaught, wsVars, peerRows>>

\* every variable of the node and its store
nodeVars == <<state, storage, messages, snapshots, running, task, cancelReq, pushTarget,
              pushQ, syncRoom, syncQ, syncOk, shut, now, nextId, pubs, firstResp, dupResp,
              lastCall, stopReq, cycle, errCaught, peerRows>>

gossipVars == <<running, task, cancelReq, stopReq, pushTarget, pushQ, cycle, errCaught>>
syncVars == <<syncRoom, syncQ, syncOk>>
respVars == <<firstResp, dupResp>>

NoCycle == [status |-> "none", pending |-> {}, stray |-> FALSE, failed |-> {}]

NoCall == [op |-> "none"]

Idle ==
    /\ state = [p \in Nodes |-> None]
    /\ storage = [p \in Nodes |-> FALSE]
    /\ messages = [p \in Nodes |-> <<>>]
    /\ snapshots = [p \in Nodes |-> <<>>]
    /\ running = [p \in Nodes |-> FALSE]
    /\ task = [p \in Nodes |-> "none"]
    /\ cancelReq = [p \in Nodes |-> FALSE]
    /\ pushTarget = [p \in Nodes |-> p]
    /\ pushQ = [p \in Nodes |-> <<>>]
    /\ syncRoom = [p \in Nodes |-> "general"]
    /\ syncQ = [p \in Nodes |-> <<>>]
    /\ syncOk = [p \in Nodes |-> FALSE]
    /\ shut = [p \in Nodes |-> "idle"]
    /\ now = 1
    /\ nextId = 1
    /\ pubs = [p \in Nodes |-> <<>>]
    /\ firstResp = [p \in Nodes |-> <<>>]
    /\ dupResp = [p \in Nodes |-> <<>>]
    /\ lastCall = [p \in Nodes |-> [op |-> "none", user_id |-> p, outcome |-> "none"]]
    /\ stopReq = [p \in Nodes |-> FALSE]
    /\ cycle = [p \in Nodes |-> NoCycle]
    /\ errCaught = [p \in Nodes |-> FALSE]
    /\ active_connections = <<>>
    /\ pubsub_tasks = <<>>
    /\ accepting = {}
    /\ listeners = <<>>
    /\ sent = <<>>
    /\ heard = <<>>
    /\ peerRows = [p \in Nodes |-> {}]

Init == Idle /\ ret = NoCall

\* LocalNodeService.is_initialized
IsInitialized(p) == state[p] # None

\* ------------------------------------------------- lifecycle: initialize
RECURSIVE ReplayMessages(_, _, _)
\* for msg in delta_messages: update_clock(room_id, msg.vector_clock)
ReplayMessages(st, room_id, delta_messages) ==
    IF delta_messages = <<>> THEN st
    ELSE ReplayMessages(UpdateClock(st, room_id, Head(delta_messages).vector_clock),
                        room_id, Tail(delta_messages))

\* `if snapshot_clock:` is false for None and for the empty dict
Truthy(clock) == clock # None /\ DOMAIN clock # {}

\* a restore that replays the later messages but drops the snapshot clock
RestoreRoomNoSnapshot(st, room_id, tbl, snaps) ==
    LET joined == JoinRoom(st, room_id)
        snap == LoadSnapshot(snaps, room_id)
        last_time == snap[2]
    IN  ReplayMessages(joined, room_id, GetMessagesAfter(tbl, room_id, last_time))

\* body of `for room_id in room_ids` in LocalNodeService.initialize
RestoreRoom(st, room_id, tbl, snaps) ==
    LET joined == JoinRoom(st, room_id)
        snap == LoadSnapshot(snaps, room_id)
        snapshot_clock == snap[1]
        last_time == snap[2]
        merged == IF Truthy(snapshot_clock)
                  THEN UpdateClock(joined, room_id, snapshot_clock) ELSE joined
    IN  ReplayMessages(merged, room_id, GetMessagesAfter(tbl, room_id, last_time))

RECURSIVE RestoreRooms(_, _, _, _)
RestoreRooms(st, room_ids, tbl, snaps) ==
    IF room_ids = {} THEN st
    ELSE LET room_id == CHOOSE r \in room_ids : TRUE
         IN  RestoreRooms(RestoreRoom(st, room_id, tbl, snaps), room_ids \ {room_id}, tbl, snaps)

\* an initialize whose guard lets a different identity replace the current one
InitializeReplacing(p, user_id) ==
    IF IsInitialized(p) /\ state[p].node_id = user_id
    THEN /\ lastCall' = [lastCall EXCEPT ![p] =
                [op |-> "initialize", user_id |-> user_id, outcome |-> "noop"]]
         /\ UNCHANGED <<wsVars, peerRows, state, storage, messages, snapshots, gossipVars, syncVars, shut,
                        now, ret, nextId, pubs, respVars>>
    ELSE /\ storage' = [storage EXCEPT ![p] = TRUE]
         /\ state' = [state EXCEPT ![p] =
                RestoreRooms(NewNodeState(user_id),
                             GetAllRoomIds(messages[p], snapshots[p]),
                             messages[p], snapshots[p])]
         /\ running' = [running EXCEPT ![p] = FALSE]
         /\ task' = [task EXCEPT ![p] = "created"]
         /\ cancelReq' = [cancelReq EXCEPT ![p] = FALSE]
         /\ pushQ' = [pushQ EXCEPT ![p] = <<>>]
         /\ cycle' = [cycle EXCEPT ![p] = NoCycle]
         /\ errCaught' = [errCaught EXCEPT ![p] = FALSE]
         /\ stopReq' = [stopReq EXCEPT ![p] = FALSE]
         /\ lastCall' = [lastCall EXCEPT ![p] =
                [op |-> "initialize", user_id |-> user_id, outcome |-> "ok"]]
         /\ UNCHANGED <<wsVars, peerRows, messages, snapshots, pushTarget, syncVars, shut, now, ret, nextId,
                        pubs, respVars>>

\* LocalNodeService.initialize, with _start_gossip
Initialize(p, user_id) ==
    IF IsInitialized(p)
    THEN /\ lastCall' = [lastCall EXCEPT ![p] =
                [op |-> "initialize", user_id |-> user_id,
                 outcome |-> IF state[p].node_id # user_id THEN "conflict" ELSE "noop"]]
         /\ UNCHANGED <<wsVars, peerRows, state, storage, messages, snapshots, gossipVars, syncVars, shut,
                        now, ret, nextId, pubs, respVars>>
    ELSE /\ user_id = p
         /\ task[p] \in {"none", "done"}
         /\ storage' = [storage EXCEPT ![p] = TRUE]
         /\ state' = [state EXCEPT ![p] =
                RestoreRooms(NewNodeState(user_id),
                             GetAllRoomIds(messages[p], snapshots[p]),
                             messages[p], snapshots[p])]
         /\ running' = [running EXCEPT ![p] = FALSE]
         /\ task' = [task EXCEPT ![p] = "created"]
         /\ cancelReq' = [cancelReq EXCEPT ![p] = FALSE]
         /\ pushQ' = [pushQ EXCEPT ![p] = <<>>]
         /\ cycle' = [cycle EXCEPT ![p] = NoCycle]
         /\ errCaught' = [errCaught EXCEPT ![p] = FALSE]
         /\ stopReq' = [stopReq EXCEPT ![p] = FALSE]
         /\ lastCall' = [lastCall EXCEPT ![p] =
                [op |-> "initialize", user_id |-> user_id, outcome |-> "ok"]]
         /\ UNCHANGED <<wsVars, peerRows, messages, snapshots, pushTarget, syncVars, shut, now, ret, nextId,
                        pubs, respVars>>

\* --------------------------------------------------- lifecycle: shutdown
RECURSIVE SaveSnapshots(_, _, _, _)
\* for room_id, clock in room_clocks.items(): save_snapshot(room_id, clock)
SaveSnapshots(snaps, room_clocks, room_ids, current_time) ==
    IF room_ids = {} THEN snaps
    ELSE LET room_id == CHOOSE r \in room_ids : TRUE
         IN  SaveSnapshots(SaveSnapshot(snaps, room_id, room_clocks[room_id], current_time),
                           room_clocks, room_ids \ {room_id}, current_time)

\* GossipService.stop
Stop(p) == [running EXCEPT ![p] = FALSE]

\* GossipService.stop called on its own, by a holder of the service
GossipStop(p) ==
    /\ IsInitialized(p)
    /\ shut[p] = "idle"
    /\ running' = Stop(p)
    /\ stopReq' = [stopReq EXCEPT ![p] = TRUE]
    /\ UNCHANGED <<wsVars, peerRows, state, storage, messages, snapshots, task, cancelReq, pushTarget, pushQ,
                   cycle, errCaught, syncVars, shut, now, ret, nextId, pubs, respVars, lastCall>>

\* a shutdown that saves the snapshots first and stops the gossip afterwards
ShutdownBeginSnapshotting(p) ==
    /\ IsInitialized(p)
    /\ shut[p] = "idle"
    /\ snapshots' = [snapshots EXCEPT ![p] =
            SaveSnapshots(@, state[p].room_clocks, DOMAIN state[p].room_clocks, now)]
    /\ running' = Stop(p)
    /\ stopReq' = [stopReq EXCEPT ![p] = TRUE]
    /\ cancelReq' = [cancelReq EXCEPT ![p] = task[p] # "done"]
    /\ shut' = [shut EXCEPT ![p] = "awaiting"]
    /\ UNCHANGED <<wsVars, peerRows, state, storage, messages, task, pushTarget, pushQ, cycle,
                   errCaught, syncVars, now, ret, nextId, pubs, respVars, lastCall>>

\* shutdown, step 1: gossip.stop(), task.cancel(), then `await self._gossip_task`
ShutdownBegin(p) ==
    /\ IsInitialized(p)
    /\ shut[p] = "idle"
    /\ running' = Stop(p)
    /\ stopReq' = [stopReq EXCEPT ![p] = TRUE]
    /\ cancelReq' = [cancelReq EXCEPT ![p] = task[p] # "done"]
    /\ shut' = [shut EXCEPT ![p] = "awaiting"]
    /\ UNCHANGED <<wsVars, peerRows, state, storage, messages, snapshots, task, pushTarget, pushQ, cycle,
                   errCaught, syncVars, now, ret, nextId, pubs, respVars, lastCall>>

\* a shutdown that does not await the gossip task before it saves and clears
ShutdownFinishNoWait(p) ==
    /\ shut[p] = "awaiting"
    /\ snapshots' = [snapshots EXCEPT ![p] =
            IF state[p] # None /\ storage[p]
            THEN SaveSnapshots(@, state[p].room_clocks, DOMAIN state[p].room_clocks, now)
            ELSE @]
    /\ state' = [state EXCEPT ![p] = None]
    /\ storage' = [storage EXCEPT ![p] = FALSE]
    /\ shut' = [shut EXCEPT ![p] = "idle"]
    /\ lastCall' = [lastCall EXCEPT ![p] = [op |-> "shutdown", user_id |-> @.user_id, outcome |-> "ok"]]
    /\ UNCHANGED <<wsVars, peerRows, messages, gossipVars, syncVars, now, ret, nextId, pubs, respVars>>

\* shutdown, after the await returned: save the snapshots, clear the attributes
ShutdownFinish(p) ==
    /\ shut[p] = "awaiting"
    /\ task[p] = "done"
    /\ snapshots' = [snapshots EXCEPT ![p] =
            IF state[p] # None /\ storage[p]
            THEN SaveSnapshots(@, state[p].room_clocks, DOMAIN state[p].room_clocks, now)
            ELSE @]
    /\ state' = [state EXCEPT ![p] = None]
    /\ storage' = [storage EXCEPT ![p] = FALSE]
    /\ shut' = [shut EXCEPT ![p] = "idle"]
    /\ lastCall' = [lastCall EXCEPT ![p] = [op |-> "shutdown", user_id |-> @.user_id, outcome |-> "ok"]]
    /\ UNCHANGED <<wsVars, peerRows, messages, gossipVars, syncVars, now, ret, nextId, pubs, respVars>>

\* ------------------------------------------------------------ fanout bus
\* ConnectionManager.publish, as called by a route of node p
Publish(p, message) == [pubs EXCEPT ![p] = Put(@, message.message_id, Get(@, message.message_id, 0) + 1)]

\* ----------------------------------------------------------------- routes
\* send_message that reads the room clock before incrementing it
SendMessageStaleClock(p, room_id, content) ==
    /\ state[p] # None /\ storage[p]
    /\ nextId <= MaxMsgs
    /\ LET incremented == IncrementClock(state[p], room_id)
           current_clock == GetClock(state[p], room_id)
           new_msg == Message(nextId, room_id, state[p].node_id, content, current_clock, now)
       IN  /\ state' = [state EXCEPT ![p] = incremented]
           /\ messages' = [messages EXCEPT ![p] = AddMessage(@, new_msg)]
           /\ pubs' = Publish(p, new_msg)
    /\ nextId' = nextId + 1
    /\ UNCHANGED <<wsVars, peerRows, storage, snapshots, gossipVars, syncVars, shut, now, ret, respVars, lastCall>>

\* routes.send_message (POST /messages); current_user is the node's identity
SendMessage(p, room_id, content) ==
    /\ state[p] # None /\ storage[p]
    /\ nextId <= MaxMsgs
    /\ LET incremented == IncrementClock(state[p], room_id)
           current_clock == GetClock(incremented, room_id)
           new_msg == Message(nextId, room_id, state[p].node_id, content, current_clock, now)
       IN  /\ state' = [state EXCEPT ![p] = incremented]
           /\ messages' = [messages EXCEPT ![p] = AddMessage(@, new_msg)]
           /\ pubs' = Publish(p, new_msg)
    /\ nextId' = nextId + 1
    /\ UNCHANGED <<wsVars, peerRows, storage, snapshots, gossipVars, syncVars, shut, now, ret, respVars, lastCall>>

\* replication_endpoint without the message_exists check
ReplicationStatusUnchecked(q, message) ==
    IF ~IsInitialized(q) \/ state[q] = None \/ ~storage[q] THEN "unavailable"
    ELSE "replicated"

\* Status returned by routes.replication_endpoint
ReplicationStatus(q, message) ==
    IF ~IsInitialized(q) \/ state[q] = None \/ ~storage[q] THEN "unavailable"
    ELSE IF MessageExists(messages[q], message.message_id) THEN "ignored"
    ELSE "replicated"

\* Bookkeeping of the statuses given to the deliveries of one id at node q
Responded(q, message, status) ==
    IF status = "unavailable" THEN UNCHANGED respVars
    ELSE IF message.message_id \notin DOMAIN firstResp[q]
    THEN /\ firstResp' = [firstResp EXCEPT ![q] = Put(@, message.message_id, status)]
         /\ UNCHANGED dupResp
    ELSE /\ dupResp' = [dupResp EXCEPT ![q] =
                Put(@, message.message_id, Get(@, message.message_id, {}) \cup {status})]
         /\ UNCHANGED firstResp

\* replication_endpoint that also publishes what it stored (the echo)
ReplicationEndpointEcho(q, message) ==
    LET status == ReplicationStatus(q, message)
    IN  /\ Responded(q, message, status)
        /\ IF status = "replicated"
           THEN /\ state' = [state EXCEPT ![q] =
                        UpdateClock(@, message.room_id, message.vector_clock)]
                /\ messages' = [messages EXCEPT ![q] = AddMessage(@, message)]
                /\ pubs' = Publish(q, message)
           ELSE UNCHANGED <<state, messages, pubs>>

\* replication_endpoint that stores the message without update_clock
ReplicationEndpointNoMerge(q, message) ==
    LET status == ReplicationStatus(q, message)
    IN  /\ Responded(q, message, status)
        /\ IF status = "replicated"
           THEN /\ messages' = [messages EXCEPT ![q] = AddMessage(@, message)]
                /\ UNCHANGED state
           ELSE UNCHANGED <<state, messages>>
        /\ UNCHANGED pubs

\* routes.replication_endpoint (POST /replication) handled by node q
ReplicationEndpoint(q, message) ==
    LET status == ReplicationStatus(q, message)
    IN  /\ Responded(q, message, status)
        /\ IF status = "replicated"
           THEN /\ state' = [state EXCEPT ![q] =
                        UpdateClock(@, message.room_id, message.vector_clock)]
                /\ messages' = [messages EXCEPT ![q] = AddMessage(@, message)]
           ELSE UNCHANGED <<state, messages>>
        /\ UNCHANGED pubs

\* ------------------------------------------------------- gossip: the loop
\* first step of the task: start() up to `await asyncio.sleep(3)`
GossipStart(p) ==
    /\ task[p] = "created"
    /\ ~cancelReq[p]
    /\ running' = [running EXCEPT ![p] = TRUE]
    /\ task' = [task EXCEPT ![p] = "warmup"]
    /\ UNCHANGED <<wsVars, peerRows, state, storage, messages, snapshots, cancelReq, stopReq, pushTarget, pushQ, cycle,
                   errCaught, syncVars, shut, now, ret, nextId, pubs, respVars, lastCall>>

\* a sleep returns: `while self._running`, secrets.choice, _push_data up to
\* its first `await client.post`
GossipWake(p, target) ==
    /\ task[p] \in {"warmup", "sleep"}
    /\ ~cancelReq[p]
    /\ target \in Peers(p)
    /\ IF ~running[p]
       THEN \* loop exit, then the finally block
            /\ task' = [task EXCEPT ![p] = "done"]
            /\ UNCHANGED <<pushTarget, pushQ, cycle>>
       ELSE LET msgs == GetAllMessages(messages[p], DefaultLimit, DefaultOffset)
            IN  IF Peers(p) # {} /\ target # NodeAddr(p) /\ msgs # <<>>
                THEN /\ task' = [task EXCEPT ![p] = "push"]
                     /\ pushTarget' = [pushTarget EXCEPT ![p] = target]
                     /\ pushQ' = [pushQ EXCEPT ![p] = msgs]
                     /\ cycle' = [cycle EXCEPT ![p] =
                            [status |-> "active", pending |-> Ids(messages[p]),
                             stray |-> FALSE, failed |-> {}]]
                ELSE /\ task' = [task EXCEPT ![p] = "sleep"]
                     /\ cycle' = [cycle EXCEPT ![p] = NoCycle]
                     /\ UNCHANGED <<pushTarget, pushQ>>
    /\ running' = [running EXCEPT ![p] = IF task'[p] = "done" THEN FALSE ELSE @]
    /\ UNCHANGED <<wsVars, peerRows, state, storage, messages, snapshots, cancelReq, stopReq, errCaught,
                   syncVars, shut, now, ret, nextId, pubs, respVars, lastCall>>

\* a loop without the `except Exception`: the error ends the task, finally runs
GossipCycleErrorFatal(p) ==
    /\ task[p] \in {"warmup", "sleep"}
    /\ ~cancelReq[p]
    /\ running[p]
    /\ task' = [task EXCEPT ![p] = "done"]
    /\ running' = [running EXCEPT ![p] = FALSE]
    /\ cycle' = [cycle EXCEPT ![p] = [NoCycle EXCEPT !.status = "error"]]
    /\ errCaught' = [errCaught EXCEPT ![p] = TRUE]
    /\ UNCHANGED <<wsVars, peerRows, state, storage, messages, snapshots, cancelReq, stopReq,
                   pushTarget, pushQ, syncVars, shut, now, ret, nextId, pubs, respVars, lastCall>>

\* a sleep returns and the cycle raises before the first post (peer selection,
\* reading the store): `except Exception` logs it, then `await asyncio.sleep(2)`
GossipCycleError(p) ==
    /\ task[p] \in {"warmup", "sleep"}
    /\ ~cancelReq[p]
    /\ running[p]
    /\ task' = [task EXCEPT ![p] = "sleep"]
    /\ cycle' = [cycle EXCEPT ![p] = [NoCycle EXCEPT !.status = "error"]]
    /\ errCaught' = [errCaught EXCEPT ![p] = TRUE]
    /\ UNCHANGED <<wsVars, peerRows, state, storage, messages, snapshots, running, cancelReq, stopReq,
                   pushTarget, pushQ, syncVars, shut, now, ret, nextId, pubs, respVars, lastCall>>

\* a _push_data whose try encloses the whole for loop: the first post that
\* raises httpx.HTTPError ends the cycle
PushStepFailFast(p, ok) ==
    /\ task[p] = "push"
    /\ ~cancelReq[p]
    /\ pushQ[p] # <<>>
    /\ LET msg == Head(pushQ[p])
           rest == IF ok THEN Tail(pushQ[p]) ELSE <<>>
       IN  /\ IF ok THEN ReplicationEndpoint(RStrip(pushTarget[p]), msg)
                    ELSE UNCHANGED <<state, messages, pubs, respVars>>
           /\ pushQ' = [pushQ EXCEPT ![p] = rest]
           /\ cycle' = [cycle EXCEPT ![p] =
                  [status |-> IF rest = <<>> THEN "complete" ELSE "active",
                   pending |-> @.pending \ {msg.message_id},
                   stray |-> @.stray \/ msg.message_id \notin @.pending,
                   failed |-> IF ok THEN @.failed ELSE @.failed \cup {msg.message_id}]]
           /\ task' = [task EXCEPT ![p] = IF rest = <<>> THEN "sleep" ELSE "push"]
    /\ UNCHANGED <<wsVars, peerRows, storage, snapshots, running, cancelReq, stopReq, pushTarget, errCaught,
                   syncVars, shut, now, ret, nextId, lastCall>>

\* _push_data: the post of the next message returns (ok: the target handled
\* the request; otherwise httpx.HTTPError, which is logged), next iteration
PushStep(p, ok) ==
    /\ task[p] = "push"
    /\ ~cancelReq[p]
    /\ pushQ[p] # <<>>
    /\ LET msg == Head(pushQ[p])
       IN  /\ IF ok THEN ReplicationEndpoint(RStrip(pushTarget[p]), msg)
                    ELSE UNCHANGED <<state, messages, pubs, respVars>>
           /\ pushQ' = [pushQ EXCEPT ![p] = Tail(@)]
           /\ cycle' = [cycle EXCEPT ![p] =
                  [status |-> IF Tail(pushQ[p]) = <<>> THEN "complete" ELSE "active",
                   pending |-> @.pending \ {msg.message_id},
                   stray |-> @.stray \/ msg.message_id \notin @.pending,
                   failed |-> IF ok THEN @.failed ELSE @.failed \cup {msg.message_id}]]
           /\ task' = [task EXCEPT ![p] = IF Tail(pushQ[p]) = <<>> THEN "sleep" ELSE "push"]
    /\ UNCHANGED <<wsVars, peerRows, storage, snapshots, running, cancelReq, stopReq, pushTarget, errCaught,
                   syncVars, shut, now, ret, nextId, lastCall>>

\* _push_data: the post raises something that is not an httpx.HTTPError; it
\* leaves _push_data and is caught by the loop's `except Exception`
PushAbort(p) ==
    /\ task[p] = "push"
    /\ ~cancelReq[p]
    /\ pushQ[p] # <<>>
    /\ pushQ' = [pushQ EXCEPT ![p] = <<>>]
    /\ cycle' = [cycle EXCEPT ![p] = [@ EXCEPT !.status = "error"]]
    /\ errCaught' = [errCaught EXCEPT ![p] = TRUE]
    /\ task' = [task EXCEPT ![p] = "sleep"]
    /\ UNCHANGED <<wsVars, peerRows, state, storage, messages, snapshots, running, cancelReq, stopReq,
                   pushTarget, syncVars, shut, now, ret, nextId, pubs, respVars, lastCall>>

\* a start() without the finally block: the cancelled task ends and the flag
\* stays as it was
GossipCancelledNoFinally(p) ==
    /\ cancelReq[p]
    /\ task[p] \in {"created", "warmup", "push", "sleep"}
    /\ task' = [task EXCEPT ![p] = "done"]
    /\ pushQ' = [pushQ EXCEPT ![p] = <<>>]
    /\ cycle' = [cycle EXCEPT ![p] =
            IF @.status = "active" THEN [@ EXCEPT !.status = "cancelled"] ELSE @]
    /\ UNCHANGED <<wsVars, peerRows, state, storage, messages, snapshots, running, cancelReq,
                   stopReq, pushTarget, errCaught, syncVars, shut, now, ret, nextId, pubs,
                   respVars, lastCall>>

\* the cancelled task is resumed: CancelledError at its suspension point, the
\* finally block resets the flag; a task cancelled before its first step
\* never runs the coroutine body
GossipCancelled(p) ==
    /\ cancelReq[p]
    /\ task[p] \in {"created", "warmup", "push", "sleep"}
    /\ running' = [running EXCEPT ![p] = IF task[p] = "created" THEN @ ELSE FALSE]
    /\ task' = [task EXCEPT ![p] = "done"]
    /\ pushQ' = [pushQ EXCEPT ![p] = <<>>]
    /\ cycle' = [cycle EXCEPT ![p] =
            IF @.status = "active" THEN [@ EXCEPT !.status = "cancelled"] ELSE @]
    /\ UNCHANGED <<wsVars, peerRows, state, storage, messages, snapshots, cancelReq, stopReq, pushTarget,
                   errCaught, syncVars, shut, now, ret, nextId, pubs, respVars, lastCall>>

\* ------------------------------------------------------ gossip: pull-sync
\* secrets.SystemRandom().sample(peers, k): k distinct peers in random order
Samples(peers, k) ==
    {t \in [1..k -> peers] : \A i, j \in 1..k : i # j => t[i] # t[j]}

Min(a, b) == IF a <= b THEN a ELSE b

\* routes.sync_room, LocalNodeService.sync_room and sync_room_messages up to
\* the first `await client.get`: `continue` on the node's own address does
\* not suspend, so only the other targets are left to query
SyncBegin(p, room_id, targets) ==
    /\ IsInitialized(p)
    /\ syncQ[p] = <<>>
    /\ Peers(p) # {}
    /\ targets \in Samples(Peers(p), Min(Cardinality(Peers(p)), SyncFanout))
    /\ syncRoom' = [syncRoom EXCEPT ![p] = room_id]
    /\ syncQ' = [syncQ EXCEPT ![p] = SelectSeq(targets, LAMBDA t : t # NodeAddr(p))]
    /\ syncOk' = [syncOk EXCEPT ![p] = FALSE]
    /\ UNCHANGED <<wsVars, peerRows, state, storage, messages, snapshots, gossipVars, shut, now, ret, nextId,
                   pubs, respVars, lastCall>>

\* routes.get_messages (GET /messages) served by node q to a puller
ReadEndpoint(q, room_id, limit) ==
    IF ~IsInitialized(q) \/ ~storage[q]
    THEN [status_code |-> 401, body |-> <<>>]
    ELSE [status_code |-> 200, body |-> GetAllRoomMessages(messages[q], room_id, limit, 0)]

\* Message(**msg_data): pydantic raises when a required field is missing
RequiredFields == {"room_id", "sender_id", "content"}

Validates(msg_data) == RequiredFields \subseteq DOMAIN msg_data

RECURSIVE StoreUnseenUntilSeen(_, _)
\* a batch loop that stops at the first message it already holds
StoreUnseenUntilSeen(tbl, messages_data) ==
    IF messages_data = <<>> THEN tbl
    ELSE LET msg == Head(messages_data)
         IN  IF ~Validates(msg) THEN StoreUnseenUntilSeen(tbl, Tail(messages_data))
             ELSE IF MessageExists(tbl, msg.message_id) THEN tbl
             ELSE StoreUnseenUntilSeen(AddMessage(tbl, msg), Tail(messages_data))

RECURSIVE StoreUnseenStrict(_, _)
\* a batch loop without the inner try: the first message that does not
\* validate raises out of the loop, the rest of the batch is not looked at
StoreUnseenStrict(tbl, messages_data) ==
    IF messages_data = <<>> THEN tbl
    ELSE LET msg == Head(messages_data)
         IN  IF ~Validates(msg) THEN tbl
             ELSE StoreUnseenStrict(IF ~MessageExists(tbl, msg.message_id)
                                    THEN AddMessage(tbl, msg) ELSE tbl,
                                    Tail(messages_data))

RECURSIVE StoreUnseen(_, _)
\* for msg_data in messages_data: try Message(**msg_data), if not
\* message_exists: add_message; except Exception: log and go on
StoreUnseen(tbl, messages_data) ==
    IF messages_data = <<>> THEN tbl
    ELSE LET msg == Head(messages_data)
         IN  StoreUnseen(IF Validates(msg) /\ ~MessageExists(tbl, msg.message_id)
                         THEN AddMessage(tbl, msg) ELSE tbl,
                         Tail(messages_data))

\* what `await client.get` and `response.json()` give to one iteration: the
\* GET raised, or a response with its status, whether its body parses, and
\* the parsed body
Fetched(raised, status_code, readable, body) ==
    [raised |-> raised, status_code |-> status_code, readable |-> readable, body |-> body]

RECURSIVE ReplayClocks(_, _)
\* update_clock with the clock of each message of a batch, in order
ReplayClocks(st, messages_data) ==
    IF messages_data = <<>> THEN st
    ELSE LET msg == Head(messages_data)
         IN  ReplayClocks(IF Validates(msg)
                          THEN UpdateClock(st, msg.room_id, msg.vector_clock) ELSE st,
                          Tail(messages_data))

\* an iteration that also merges the clock of every message of the batch
\* into Node State
SyncIterationMerging(p, response) ==
    /\ syncQ[p] # <<>>
    /\ LET target == Head(syncQ[p])
           answered == /\ target # NodeAddr(p)
                       /\ ~response.raised
                       /\ response.status_code = 200
                       /\ response.readable
       IN  /\ messages' = [messages EXCEPT ![p] =
                  IF answered THEN StoreUnseen(@, response.body) ELSE @]
           /\ state' = [state EXCEPT ![p] =
                  IF answered /\ @ # None THEN ReplayClocks(@, response.body) ELSE @]
           /\ syncOk' = [syncOk EXCEPT ![p] = answered]
    /\ syncQ' = [syncQ EXCEPT ![p] = Tail(@)]
    /\ UNCHANGED <<wsVars, peerRows, storage, snapshots, gossipVars, syncRoom, shut, now, nextId,
                   pubs, respVars, lastCall>>

\* sync_room_messages: one iteration of `for target in targets`, from the
\* return of `await client.get` to the next one.  A GET that raises, a status
\* other than 200 and a body that response.json() cannot read all end in
\* the `except Exception` of the iteration or fall through it.
SyncIteration(p, response) ==
    /\ syncQ[p] # <<>>
    /\ LET target == Head(syncQ[p])
           answered == /\ target # NodeAddr(p)
                       /\ ~response.raised
                       /\ response.status_code = 200
                       /\ response.readable
       IN  /\ messages' = [messages EXCEPT ![p] =
                  IF answered THEN StoreUnseen(@, response.body) ELSE @]
           /\ syncOk' = [syncOk EXCEPT ![p] = answered]
    /\ syncQ' = [syncQ EXCEPT ![p] = Tail(@)]
    /\ UNCHANGED <<wsVars, peerRows, state, storage, snapshots, gossipVars, syncRoom, shut, now, nextId,
                   pubs, respVars, lastCall>>

\* the iteration against a peer of the cluster (ok: the GET returned what the
\* peer's endpoint answered; otherwise it raised and the peer is skipped)
SyncStep(p, ok) ==
    /\ syncQ[p] # <<>>
    /\ LET response == ReadEndpoint(RStrip(Head(syncQ[p])), syncRoom[p], SyncLimit)
       IN  SyncIteration(p, Fetched(~ok, response.status_code, TRUE, response.body))
    /\ UNCHANGED ret

\* ------------------------------------------------------------------ time
Tick ==
    /\ now < MaxTime
    /\ now' = now + 1
    /\ UNCHANGED <<wsVars, peerRows, ret, state, storage, messages, snapshots, gossipVars, syncVars, shut, nextId,
                   pubs, respVars, lastCall>>

\* ----------------------------------------------------------------- crash
\* The process is killed and started again: LocalNodeService.__init__ leaves
\* every attribute None, the tasks are gone, the database file remains.
Crash(p) ==
    /\ IsInitialized(p)
    /\ state' = [state EXCEPT ![p] = None]
    /\ storage' = [storage EXCEPT ![p] = FALSE]
    /\ running' = [running EXCEPT ![p] = FALSE]
    /\ task' = [task EXCEPT ![p] = "none"]
    /\ cancelReq' = [cancelReq EXCEPT ![p] = FALSE]
    /\ pushQ' = [pushQ EXCEPT ![p] = <<>>]
    /\ cycle' = [cycle EXCEPT ![p] = NoCycle]
    /\ errCaught' = [errCaught EXCEPT ![p] = FALSE]
    /\ stopReq' = [stopReq EXCEPT ![p] = FALSE]
    /\ syncQ' = [syncQ EXCEPT ![p] = <<>>]
    /\ syncOk' = [syncOk EXCEPT ![p] = FALSE]
    /\ shut' = [shut EXCEPT ![p] = "idle"]
    /\ UNCHANGED <<wsVars, peerRows, messages, snapshots, pushTarget, syncRoom, now, ret, nextId, pubs, respVars,
                   lastCall>>

\* ------------------------------------------------------------ the cluster
\* Replication in the mesh: the two mesh nodes log in, send and gossip to
\* each other, one of them also pulls; the third node stays down.
Next ==
    \/ \E p \in MeshNodes : ~IsInitialized(p) /\ Initialize(p, p)
    \/ \E p \in MeshNodes, room_id \in MeshRooms, content \in Contents :
        SendMessage(p, room_id, content)
    \/ \E p \in MeshNodes : GossipStart(p)
    \/ \E p \in MeshNodes, target \in MeshNodes : GossipWake(p, target)
    \/ \E p \in MeshNodes, ok \in BOOLEAN : PushStep(p, ok)
    \/ \E p \in MeshNodes \ {Focus}, room_id \in MeshRooms :
        \E targets \in Samples(Peers(p), Min(Cardinality(Peers(p)), SyncFanout)) :
            SyncBegin(p, room_id, targets)
    \/ \E p \in MeshNodes \ {Focus}, ok \in BOOLEAN : SyncStep(p, ok)

Spec == Init /\ [][Next]_vars

\* The life of one node (Focus): login, repeated login, shutdown, crash and
\* restart, while it sends in both rooms and a peer that stays up sends and
\* pushes to it.  Every cycle explored here selects Focus as its target, so
\* the cycles of Focus itself send nothing.
LifeNext ==
    \/ \E user_id \in MeshNodes : Initialize(Focus, user_id)
    \/ \E p \in MeshNodes \ {Focus} : ~IsInitialized(p) /\ Initialize(p, p)
    \/ ShutdownBegin(Focus)
    \/ ShutdownFinish(Focus)
    \/ Crash(Focus)
    \/ \E p \in MeshNodes, room_id \in Rooms, content \in Contents :
        SendMessage(p, room_id, content)
    \/ \E p \in MeshNodes : GossipStart(p)
    \/ \E p \in MeshNodes : GossipWake(p, Focus)
    \/ \E p \in MeshNodes \ {Focus} : PushStep(p, TRUE)
    \/ GossipCancelled(Focus)
    \/ Tick

LifeSpec == Init /\ [][LifeNext]_vars

\* The gossip loop of one node under faults, stop and cancellation; the
\* other mesh node is a Ready target of its pushes.
LoopNext ==
    \/ \E p \in MeshNodes : ~IsInitialized(p) /\ Initialize(p, p)
    \/ \E room_id \in MeshRooms, content \in Contents : SendMessage(Focus, room_id, content)
    \/ GossipStart(Focus)
    \/ \E target \in MeshNodes : GossipWake(Focus, target)
    \/ GossipCycleError(Focus)
    \/ \E ok \in BOOLEAN : PushStep(Focus, ok)
    \/ PushAbort(Focus)
    \/ GossipStop(Focus)
    \/ ShutdownBegin(Focus)
    \/ GossipCancelled(Focus)
    \/ ShutdownFinish(Focus)

LoopSpec == Init /\ [][LoopNext]_vars

\* Pull-sync of Focus from its two peers: one peer sends and pushes to every
\* node, so that the same message can sit on both peers and on Focus.
Source == "bob"

SyncNext ==
    \/ \E p \in Nodes : ~IsInitialized(p) /\ Initialize(p, p)
    \/ \E p \in Others, room_id \in MeshRooms, content \in Contents :
        SendMessage(p, room_id, content)
    \/ GossipStart(Source)
    \/ \E target \in Nodes : GossipWake(Source, target)
    \/ PushStep(Source, TRUE)
    \/ \E room_id \in MeshRooms :
        \E targets \in Samples(Peers(Focus), Min(Cardinality(Peers(Focus)), SyncFanout)) :
            SyncBegin(Focus, room_id, targets)
    \/ \E ok \in BOOLEAN : SyncStep(Focus, ok)

SyncSpec == Init /\ [][SyncNext]_vars

\* A long-lived node: Focus has sent PushStoreSize messages in one room, at
\* distinct times, and its gossip loop is past the warm-up; the other nodes
\* have just logged in with empty stores.
PushStoreSize == DefaultLimit + 1

SentByFocus(n) ==
    [i \in 1..n |-> Message(i, "general", Focus, "hi", Put(<<>>, Focus, i), i)]

PushInit ==
    /\ state = [p \in Nodes |->
            IF p = Focus
            THEN [node_id |-> p,
                  room_clocks |-> Put(<<>>, "general", Put(<<>>, Focus, PushStoreSize))]
            ELSE NewNodeState(p)]
    /\ storage = [p \in Nodes |-> TRUE]
    /\ messages = [p \in Nodes |-> IF p = Focus THEN SentByFocus(PushStoreSize) ELSE <<>>]
    /\ snapshots = [p \in Nodes |-> <<>>]
    /\ running = [p \in Nodes |-> p = Focus]
    /\ task = [p \in Nodes |-> IF p = Focus THEN "sleep" ELSE "created"]
    /\ cancelReq = [p \in Nodes |-> FALSE]
    /\ pushTarget = [p \in Nodes |-> p]
    /\ pushQ = [p \in Nodes |-> <<>>]
    /\ syncRoom = [p \in Nodes |-> "general"]
    /\ syncQ = [p \in Nodes |-> <<>>]
    /\ syncOk = [p \in Nodes |-> FALSE]
    /\ shut = [p \in Nodes |-> "idle"]
    /\ now = PushStoreSize
    /\ nextId = PushStoreSize + 1
    /\ pubs = [p \in Nodes |-> IF p = Focus THEN [i \in 1..PushStoreSize |-> 1] ELSE <<>>]
    /\ firstResp = [p \in Nodes |-> <<>>]
    /\ dupResp = [p \in Nodes |-> <<>>]
    /\ lastCall = [p \in Nodes |-> [op |-> "initialize", user_id |-> p, outcome |-> "ok"]]
    /\ stopReq = [p \in Nodes |-> FALSE]
    /\ cycle = [p \in Nodes |-> NoCycle]
    /\ errCaught = [p \in Nodes |-> FALSE]
    /\ ret = NoCall
    /\ active_connections = <<>>
    /\ pubsub_tasks = <<>>
    /\ accepting = {}
    /\ listeners = <<>>
    /\ sent = <<>>
    /\ heard = <<>>
    /\ peerRows = [p \in Nodes |-> {}]

\* The gossip loop of Focus, every post reaching its target.  The cycles of
\* the other nodes are left out: they would only offer Focus messages that
\* it already holds.
PushNext ==
    \/ \E target \in Nodes : GossipWake(Focus, target)
    \/ PushStep(Focus, TRUE)

\* The sleeps end, the choice of the peer is fair, every post is delivered.
PushFairness ==
    /\ WF_vars(PushStep(Focus, TRUE))
    /\ \A target \in Nodes : SF_vars(GossipWake(Focus, target))

PushSpec == PushInit /\ [][PushNext]_vars /\ PushFairness

Answers(q, id) ==
    IF Get(firstResp'[q], id, "none") # Get(firstResp[q], id, "none")
    THEN {firstResp'[q][id]}
    ELSE Get(dupResp'[q], id, {}) \ Get(dupResp[q], id, {})

\* C2 (as claimed): of the deliveries of one message to a node's replication
\* endpoint, the first returns `replicated` and every later one `ignored`.
FirstDeliveryReplicates ==
    \A q \in Nodes :
        /\ \A id \in DOMAIN firstResp[q] : firstResp[q][id] = "replicated"
        /\ \A id \in DOMAIN dupResp[q] : dupResp[q][id] = {"ignored"}

\* C2 (amended): a delivery of a message that the node already stores, from
\* an earlier delivery, a pull-sync or its own send, returns `ignored` and
\* leaves the store and the clocks as they are; a delivery of a message it
\* does not store returns `replicated`, adds that one row and merges its
\* clock; so every delivery after the first returns `ignored`.
IdempotentIngestion ==
    /\ [](\A q \in Nodes : \A id \in DOMAIN dupResp[q] : dupResp[q][id] = {"ignored"})
    /\ [][\A q \in Nodes : \A id \in 1..(nextId - 1) :
            Answers(q, id) # {} =>
                IF MessageExists(messages[q], id)
                THEN /\ Answers(q, id) = {"ignored"}
                     /\ messages'[q] = messages[q]
                     /\ state'[q] = state[q]
                ELSE /\ Answers(q, id) = {"replicated"}
                     /\ Ids(messages'[q]) = Ids(messages[q]) \cup {id}
                     /\ Len(messages'[q]) = Len(messages[q]) + 1
                     /\ LET m == Row(messages'[q], id)
                        IN  \A k \in DOMAIN m.vector_clock :
                                state'[q].room_clocks[m.room_id][k] >= m.vector_clock[k]
       ]_vars

\* C2, its cases: one message was accepted and then offered again; another
\* one was already stored when it was first delivered.
IdempotentIngestionCase ==
    \E q \in Nodes, r \in Nodes : \E a \in DOMAIN dupResp[q], b \in DOMAIN firstResp[r] :
        /\ firstResp[q][a] = "replicated"
        /\ firstResp[r][b] = "ignored"
        /\ Len(messages[q]) = Cardinality(Ids(messages[q]))

\* A step in which node p stored a message it created.
SentNow(p) ==
    /\ nextId' = nextId + 1
    /\ ~MessageExists(messages[p], nextId)
    /\ MessageExists(messages'[p], nextId)

\* C3: a local send increments the sender's own counter in the room exactly
\* once and no other counter, stores the message with the room clock as it
\* is after the increment ({sender: 1} in a room the node had not seen), and
\* publishes that message once, on the sender only; what is published is
\* stored.
LocalSendPath ==
    /\ [](\A p \in Nodes : \A id \in DOMAIN pubs[p] : MessageExists(messages[p], id))
    /\ [][\A p \in Nodes : SentNow(p) =>
            LET m == Row(messages'[p], nextId)
                before == Get(state[p].room_clocks, m.room_id, <<>>)
                after == state'[p].room_clocks[m.room_id]
            IN  /\ m.sender_id = p
                /\ after[p] = Get(before, p, 0) + 1
                /\ \A k \in DOMAIN after \ {p} : k \in DOMAIN before /\ after[k] = before[k]
                /\ m.vector_clock = after
                /\ m.room_id \notin DOMAIN state[p].room_clocks =>
                       m.vector_clock = [k \in {p} |-> 1]
                /\ nextId \notin DOMAIN pubs[p]
                /\ Get(pubs'[p], nextId, 0) = 1
                /\ \A q \in Nodes \ {p} : pubs'[q] = pubs[q]
       ]_vars

\* C3, its case: a node that had merged a peer's clock sent a message; the
\* message carries both counters and was published once.
LocalSendPathCase ==
    \E p \in Nodes : \E i \in DOMAIN messages[p] :
        LET m == messages[p][i]
        IN  /\ m.sender_id = p
            /\ Cardinality(DOMAIN m.vector_clock) = 2
            /\ m.vector_clock[p] = 1
            /\ \E k \in DOMAIN m.vector_clock \ {p} : m.vector_clock[k] >= 1
            /\ Get(pubs[p], m.message_id, 0) = 1

\* The pointwise maximum of a set of clocks.
Join(clocks) ==
    [k \in UNION {DOMAIN c : c \in clocks} |->
        CHOOSE n \in {Get(c, k, 0) : c \in clocks} : \A c \in clocks : Get(c, k, 0) <= n]

\* What the store of p holds for a room: the snapshot clock if there is one
\* and the clocks of the messages created after the snapshot's timestamp
\* (of all the room's messages when there is no snapshot).
StoredClocks(p, room_id) ==
    LET has == room_id \in DOMAIN snapshots[p]
        later == {i \in DOMAIN messages[p] :
                    /\ messages[p][i].room_id = room_id
                    /\ has => messages[p][i].created_at > snapshots[p][room_id].last_processed_time}
    IN  (IF has THEN {LoadSnapshot(snapshots[p], room_id)[1]} ELSE {})
            \cup {messages[p][i].vector_clock : i \in later}

\* C4: when initialize completes on a node that was not Ready, the clock of
\* every room known to the store is the merge of {node_id: 0}, the room's
\* snapshot clock and the clocks of the room's messages created strictly
\* after the snapshot's timestamp.
RecoveryCorrectness ==
    [][\A p \in Nodes : ~IsInitialized(p) /\ state'[p] # None =>
            \A room_id \in {messages[p][i].room_id : i \in DOMAIN messages[p]}
                            \cup DOMAIN snapshots[p] :
                /\ room_id \in DOMAIN state'[p].room_clocks
                /\ state'[p].room_clocks[room_id] =
                       Join({[k \in {state'[p].node_id} |-> 0]} \cup StoredClocks(p, room_id))
      ]_vars

\* C4, its case: a node restarted over a room with a snapshot that carries a
\* peer's counter and a message created after the snapshot; the gossip task
\* of the new session has not run yet and the clock is the merge of the two.
RecoveryCorrectnessCase ==
    \E room_id \in DOMAIN snapshots[Focus] : \E i \in DOMAIN messages[Focus] :
        LET snap == [vector_clock |-> LoadSnapshot(snapshots[Focus], room_id)[1],
                     last_processed_time |-> LoadSnapshot(snapshots[Focus], room_id)[2]]
            m == messages[Focus][i]
        IN  /\ lastCall[Focus] = [op |-> "initialize", user_id |-> Focus, outcome |-> "ok"]
            /\ task[Focus] = "created"
            /\ m.room_id = room_id
            /\ m.created_at > snap.last_processed_time
            /\ \E k \in DOMAIN snap.vector_clock \ {Focus} : snap.vector_clock[k] >= 1
            /\ IsInitialized(Focus)
            /\ state[Focus].room_clocks[room_id] = Join({snap.vector_clock, m.vector_clock})
            /\ state[Focus].room_clocks[room_id] # snap.vector_clock

\* C6: initialize on a Ready node changes nothing of the node (state,
\* storage, store, the gossip task and its flag): it is a no-op when the id
\* is the current identity and a conflict error when it differs.
InitializeOnReady ==
    [][\A p \in Nodes :
        IsInitialized(p) /\ lastCall'[p] # lastCall[p] /\ lastCall'[p].op = "initialize" =>
            /\ lastCall'[p].outcome =
                   IF lastCall'[p].user_id = state[p].node_id THEN "noop" ELSE "conflict"
            /\ UNCHANGED <<wsVars, peerRows, state, storage, messages, snapshots, gossipVars, syncVars, shut>>
      ]_vars

\* C6, its case: a Ready node with a sleeping gossip task and a room clock
\* refused a login under another identity and kept its own.
InitializeOnReadyCase ==
    /\ IsInitialized(Focus)
    /\ lastCall[Focus] = [op |-> "initialize", user_id |-> "bob", outcome |-> "conflict"]
    /\ state[Focus].node_id = Focus
    /\ DOMAIN state[Focus].room_clocks # {}
    /\ task[Focus] = "sleep" /\ running[Focus]

\* C7: while shutdown waits, the service is stopped and the node still holds
\* its state; shutdown returns only after the gossip task has terminated,
\* and in the step that follows it saves a snapshot holding the current
\* clock of every room of Node State and then clears the in-memory state.
ShutdownOrder ==
    /\ [](\A p \in Nodes : shut[p] = "awaiting" => IsInitialized(p) /\ ~running[p])
    /\ [][\A p \in Nodes : lastCall'[p] # lastCall[p] /\ lastCall'[p].op = "shutdown" =>
            /\ IsInitialized(p)
            /\ stopReq[p] /\ ~running[p]
            /\ task[p] = "done"
            /\ \A room_id \in DOMAIN state[p].room_clocks :
                    /\ room_id \in DOMAIN snapshots'[p]
                    /\ LoadSnapshot(snapshots'[p], room_id) =
                           <<state[p].room_clocks[room_id], now>>
            /\ state'[p] = None /\ ~storage'[p]
       ]_vars

\* C7, its case: a node whose gossip task was cancelled has shut down, with
\* a snapshot for each of its two rooms, one of them with a peer's counter.
ShutdownOrderCase ==
    /\ lastCall[Focus].op = "shutdown"
    /\ ~IsInitialized(Focus)
    /\ task[Focus] = "done" /\ cancelReq[Focus]
    /\ DOMAIN snapshots[Focus] = Rooms
    /\ \E room_id \in Rooms : Cardinality(DOMAIN LoadSnapshot(snapshots[Focus], room_id)[1]) = 2

\* C9: when a queried peer answers a pull-sync, each message it returns is
\* added to the store exactly when no message with its id is stored; the
\* stored rows stay as they are and no id is ever stored twice.
PullSyncIdempotent ==
    /\ [](\A p \in Nodes : Len(messages[p]) = Cardinality(Ids(messages[p])))
    /\ [][\A p \in Nodes : syncQ[p] # <<>> /\ syncQ'[p] = Tail(syncQ[p]) =>
            LET returned == ReadEndpoint(Head(syncQ[p]), syncRoom[p], SyncLimit).body
                offered == Ids(returned)
            IN  /\ \A i \in DOMAIN messages[p] :
                       /\ MessageExists(messages'[p], messages[p][i].message_id)
                       /\ Row(messages'[p], messages[p][i].message_id) = messages[p][i]
                /\ Ids(messages'[p]) \ Ids(messages[p]) \subseteq offered
                /\ IF syncOk'[p] THEN offered \subseteq Ids(messages'[p])
                                 ELSE messages'[p] = messages[p]
                /\ \A i \in DOMAIN returned :
                       MessageExists(messages'[p], returned[i].message_id)
                       /\ ~MessageExists(messages[p], returned[i].message_id)
                       => Row(messages'[p], returned[i].message_id) = returned[i]
       ]_vars

\* C9, its case: the pull of Focus is over; Focus holds a message that it
\* took by pull and that both of its peers hold, and another one that it had
\* accepted on its replication endpoint and that a peer holds too.
PullSyncIdempotentCase ==
    /\ syncQ[Focus] = <<>> /\ syncOk[Focus]
    /\ \E a \in Ids(messages[Focus]), b \in Ids(messages[Focus]) :
        /\ a \notin DOMAIN firstResp[Focus]
        /\ \A q \in Others : a \in Ids(messages[q])
        /\ Get(firstResp[Focus], b, "none") = "replicated"
        /\ \E q \in Others : b \in Ids(messages[q])

\* C10: an error in a cycle leaves the task alive, in its sleep, with the
\* running flag as it was; the task ends only when stop() cleared the flag
\* or when it was cancelled.
GossipResilience ==
    /\ [][\A p \in Nodes : cycle'[p] # cycle[p] /\ cycle'[p].status = "error" =>
            task'[p] = "sleep" /\ running'[p] = running[p]]_vars
    /\ [][\A p \in Nodes : task[p] # "done" /\ task'[p] = "done" =>
            cancelReq[p] \/ (stopReq[p] /\ ~running[p])]_vars

\* C10, its case: the loop has caught an error and is pushing in a later
\* cycle, still Running.
GossipResilienceCase ==
    /\ errCaught[Focus]
    /\ running[Focus] /\ ~stopReq[Focus]
    /\ task[Focus] = "push"
    /\ cycle[Focus].status = "active"

\* C8 (as claimed): a completed push cycle has sent one request for each
\* message that was in the local store when the cycle started.
PushCompleteness ==
    \A p \in Nodes :
        cycle[p].status = "complete" => cycle[p].pending = {} /\ ~cycle[p].stray

\* C5 (as claimed): every message stored on a node is eventually stored on
\* every node.
EventualConvergence ==
    \A p \in Nodes, q \in Nodes :
        <>(Ids(messages[p]) \subseteq Ids(messages[q]))

\* C11 (as claimed): once stop() has been called on a service whose task
\* exists, at whatever point of the task, the loop begins no push cycle.
StopEndsCycles ==
    [][\A p \in Nodes : stopReq[p] /\ task[p] # "push" => task'[p] # "push"]_vars

\* ------------------------------------------------- the vector clock engine
\* The clocks over the mesh nodes with counters up to MaxCount.
Clocks == UNION {[K -> 0..MaxCount] : K \in SUBSET MeshNodes}

\* Three clocks are given to the engine.
ClockInit ==
    /\ Idle
    /\ ret \in {[op |-> "input", a |-> A, b |-> B, c |-> C] : A \in Clocks, B \in Clocks, C \in Clocks}

\* VectorClockService.merge applied to the given clocks
MergeCall ==
    /\ ret.op = "input"
    /\ ret' = [op |-> "merge", a |-> ret.a, b |-> ret.b, c |-> ret.c,
               ab |-> Merge(ret.a, ret.b), ba |-> Merge(ret.b, ret.a),
               ab_c |-> Merge(Merge(ret.a, ret.b), ret.c),
               a_bc |-> Merge(ret.a, Merge(ret.b, ret.c)),
               aa |-> Merge(ret.a, ret.a)]
    /\ UNCHANGED sysVars

\* VectorClockService.compare applied to the given clocks
CompareCall ==
    /\ ret.op = "input"
    /\ ret' = [op |-> "compare", a |-> ret.a, b |-> ret.b,
               ab |-> Compare(ret.a, ret.b), ba |-> Compare(ret.b, ret.a),
               aa |-> Compare(ret.a, ret.a)]
    /\ UNCHANGED sysVars

ClockNext == MergeCall \/ CompareCall

ClockSpec == ClockInit /\ [][ClockNext]_vars

\* C12: merge is the pointwise maximum over the union of the keys, an absent
\* key counting 0, and is commutative, associative and idempotent.
MergeAlgebra ==
    ret.op = "merge" =>
        /\ DOMAIN ret.ab = DOMAIN ret.a \cup DOMAIN ret.b
        /\ \A k \in DOMAIN ret.ab :
               /\ ret.ab[k] >= Get(ret.a, k, 0) /\ ret.ab[k] >= Get(ret.b, k, 0)
               /\ ret.ab[k] \in {Get(ret.a, k, 0), Get(ret.b, k, 0)}
        /\ ret.ab = ret.ba
        /\ ret.ab_c = ret.a_bc
        /\ ret.aa = ret.a

\* C12, its case: two clocks with different keys and counters that cross
\* were merged with a third; the merge is neither of the two.
MergeAlgebraCase ==
    /\ ret.op = "merge"
    /\ DOMAIN ret.a # DOMAIN ret.b
    /\ \E k \in DOMAIN ret.a \cap DOMAIN ret.b : ret.a[k] > ret.b[k]
    /\ ret.ab \notin {ret.a, ret.b}
    /\ ret.ab_c # ret.ab

\* x <= y pointwise over the union of the keys, an absent key counting 0
PointwiseLe(x, y) == \A k \in DOMAIN x \cup DOMAIN y : Get(x, k, 0) <= Get(y, k, 0)

\* C13: compare(A, B) is EQUAL iff A <= B and B <= A pointwise, BEFORE iff
\* only A <= B, AFTER iff only B <= A, CONCURRENT otherwise; so compare(A, A)
\* is EQUAL, compare(A, B) is BEFORE iff compare(B, A) is AFTER, and clocks
\* with disjoint keys and a positive counter on each side are CONCURRENT.
CompareCorrect ==
    ret.op = "compare" =>
        LET le_ab == PointwiseLe(ret.a, ret.b)
            le_ba == PointwiseLe(ret.b, ret.a)
        IN  /\ ret.ab = "EQUAL" <=> le_ab /\ le_ba
            /\ ret.ab = "BEFORE" <=> le_ab /\ ~le_ba
            /\ ret.ab = "AFTER" <=> ~le_ab /\ le_ba
            /\ ret.ab = "CONCURRENT" <=> ~le_ab /\ ~le_ba
            /\ ret.aa = "EQUAL"
            /\ ret.ab = "BEFORE" <=> ret.ba = "AFTER"
            /\ (/\ DOMAIN ret.a \cap DOMAIN ret.b = {}
                /\ \E k \in DOMAIN ret.a : ret.a[k] > 0
                /\ \E k \in DOMAIN ret.b : ret.b[k] > 0) => ret.ab = "CONCURRENT"

\* C13, its case: two clocks with disjoint keys, a positive counter on each
\* side, were compared.
CompareCorrectCase ==
    /\ ret.op = "compare"
    /\ DOMAIN ret.a # {} /\ DOMAIN ret.b # {}
    /\ DOMAIN ret.a \cap DOMAIN ret.b = {}
    /\ \E k \in DOMAIN ret.a : ret.a[k] > 0
    /\ \E k \in DOMAIN ret.b : ret.b[k] > 0
    /\ ret.ab = "CONCURRENT" /\ ret.ba = "CONCURRENT"

\* ---------------------------------------------------- Node State, directly
\* NodeState.join_room called on the Node State of p
JoinRoomCall(p, room_id) ==
    /\ IsInitialized(p)
    /\ state' = [state EXCEPT ![p] = JoinRoom(@, room_id)]
    /\ ret' = [op |-> "join_room", room_id |-> room_id]
    /\ UNCHANGED <<wsVars, peerRows, storage, messages, snapshots, gossipVars, syncVars, shut, now, nextId,
                   pubs, respVars, lastCall>>

\* a get_clock written with setdefault: it joins the room it is asked about
GetClockCallJoining(p, room_id) ==
    /\ IsInitialized(p)
    /\ state' = [state EXCEPT ![p] = JoinRoom(@, room_id)]
    /\ ret' = [op |-> "get_clock", room_id |-> room_id, value |-> GetClock(state[p], room_id)]
    /\ UNCHANGED <<wsVars, peerRows, storage, messages, snapshots, gossipVars, syncVars, shut, now, nextId,
                   pubs, respVars, lastCall>>

\* NodeState.get_clock called on the Node State of p
GetClockCall(p, room_id) ==
    /\ IsInitialized(p)
    /\ ret' = [op |-> "get_clock", room_id |-> room_id, value |-> GetClock(state[p], room_id)]
    /\ UNCHANGED sysVars

\* NodeState.update_clock called on the Node State of p; it returns the
\* clock that it stored
UpdateClockCall(p, room_id, remote_clock) ==
    /\ IsInitialized(p)
    /\ state' = [state EXCEPT ![p] = UpdateClock(@, room_id, remote_clock)]
    /\ ret' = [op |-> "update_clock", room_id |-> room_id, remote |-> remote_clock,
               value |-> state'[p].room_clocks[room_id]]
    /\ UNCHANGED <<wsVars, peerRows, storage, messages, snapshots, gossipVars, syncVars, shut, now, nextId,
                   pubs, respVars, lastCall>>

\* NodeState.increment_clock called on the Node State of p; it returns the
\* clock that it stored
IncrementClockCall(p, room_id) ==
    /\ IsInitialized(p)
    /\ Get(GetClock(state[p], room_id), state[p].node_id, 0) < MaxCount
    /\ state' = [state EXCEPT ![p] = IncrementClock(@, room_id)]
    /\ ret' = [op |-> "increment_clock", room_id |-> room_id,
               value |-> state'[p].room_clocks[room_id]]
    /\ UNCHANGED <<wsVars, peerRows, storage, messages, snapshots, gossipVars, syncVars, shut, now, nextId,
                   pubs, respVars, lastCall>>

\* A node logs in over an empty store and its Node State is then driven
\* directly, with remote clocks of every shape.
NodeStateNext ==
    \/ ~IsInitialized(Focus) /\ Initialize(Focus, Focus)
    \/ \E room_id \in Rooms : JoinRoomCall(Focus, room_id)
    \/ \E room_id \in Rooms : GetClockCall(Focus, room_id)
    \/ \E room_id \in Rooms, remote_clock \in Clocks :
        UpdateClockCall(Focus, room_id, remote_clock)
    \/ \E room_id \in Rooms : IncrementClockCall(Focus, room_id)

NodeStateSpec == Init /\ [][NodeStateNext]_vars

\* The clock that get_clock gives for a room: the stored one, or {node_id: 0}.
ClockOf(st, room_id) ==
    IF room_id \in DOMAIN st.room_clocks THEN st.room_clocks[room_id]
    ELSE [k \in {st.node_id} |-> 0]

\* The step keeps the clock of every room but room_id, and tracks room_id.
OnlyRoom(p, room_id) ==
    /\ DOMAIN state'[p].room_clocks = DOMAIN state[p].room_clocks \cup {room_id}
    /\ \A r \in DOMAIN state[p].room_clocks \ {room_id} :
           state'[p].room_clocks[r] = state[p].room_clocks[r]
    /\ state'[p].node_id = state[p].node_id

\* C14: join_room seeds {node_id: 0} for a room without a clock and leaves
\* the clock of a joined room as it is, whatever updates and increments
\* came before.
JoinRoomSeeds ==
    [][IsInitialized(Focus) /\ ret'.op = "join_room" =>
        LET r == ret'.room_id
        IN  /\ OnlyRoom(Focus, r)
            /\ state'[Focus].room_clocks[r] =
                   IF r \in DOMAIN state[Focus].room_clocks
                   THEN state[Focus].room_clocks[r]
                   ELSE [k \in {state[Focus].node_id} |-> 0]
      ]_vars

\* C14, its case: a room whose clock holds counters above 0 for the node and
\* for a peer was joined again.
JoinRoomSeedsCase ==
    /\ ret.op = "join_room"
    /\ IsInitialized(Focus)
    /\ ret.room_id \in DOMAIN state[Focus].room_clocks
    /\ LET c == state[Focus].room_clocks[ret.room_id]
       IN  c[Focus] >= 1 /\ \E k \in DOMAIN c \ {Focus} : c[k] >= 1

\* C15: get_clock returns the stored clock of a joined room and {node_id: 0}
\* for an unjoined one, and changes nothing: the unjoined room stays unjoined.
GetClockPure ==
    [][IsInitialized(Focus) /\ ret'.op = "get_clock" =>
        /\ ret'.value = ClockOf(state[Focus], ret'.room_id)
        /\ state' = state
      ]_vars

\* C15, its case: get_clock was asked for a room that is not joined while
\* another room is; the room is still not joined.
GetClockPureCase ==
    /\ ret.op = "get_clock"
    /\ IsInitialized(Focus)
    /\ ret.room_id \notin DOMAIN state[Focus].room_clocks
    /\ DOMAIN state[Focus].room_clocks # {}
    /\ ret.value = [k \in {Focus} |-> 0]

\* C16: update_clock stores and returns the merge of the room's clock (as
\* get_clock gives it) with the remote clock: the result dominates both, a
\* room never joined becomes tracked with the node's own counter present,
\* and the other rooms keep their clocks.
UpdateClockMerges ==
    [][IsInitialized(Focus) /\ ret'.op = "update_clock" =>
        LET r == ret'.room_id
            prev == ClockOf(state[Focus], r)
            new == state'[Focus].room_clocks[r]
        IN  /\ OnlyRoom(Focus, r)
            /\ ret'.value = new
            /\ new = Join({prev, ret'.remote})
            /\ PointwiseLe(prev, new) /\ PointwiseLe(ret'.remote, new)
            /\ state[Focus].node_id \in DOMAIN new
            /\ new[state[Focus].node_id] >= 0
      ]_vars

\* C16, its case: a remote clock without the node's id was merged into a
\* room in which the node has counted nothing; the room is tracked with the
\* node's counter at 0 beside the peer's counter.
UpdateClockMergesCase ==
    /\ ret.op = "update_clock"
    /\ IsInitialized(Focus)
    /\ Focus \notin DOMAIN ret.remote
    /\ \E k \in DOMAIN ret.remote : ret.remote[k] >= 1
    /\ ret.value = state[Focus].room_clocks[ret.room_id]
    /\ ret.value[Focus] = 0
    /\ ret.value # ret.remote

\* C17: increment_clock raises the node's own counter in the room by exactly
\* one and changes no other counter of that room and no other room.
IncrementClockFrame ==
    [][IsInitialized(Focus) /\ ret'.op = "increment_clock" =>
        LET r == ret'.room_id
            me == state[Focus].node_id
            prev == ClockOf(state[Focus], r)
            new == state'[Focus].room_clocks[r]
        IN  /\ OnlyRoom(Focus, r)
            /\ ret'.value = new
            /\ new[me] = Get(prev, me, 0) + 1
            /\ DOMAIN new = DOMAIN prev \cup {me}
            /\ \A k \in DOMAIN new \ {me} : new[k] = prev[k]
      ]_vars

\* C17, its case: the node incremented its counter in a room that holds a
\* peer's counter while it tracks another room with a different clock.
IncrementClockFrameCase ==
    /\ ret.op = "increment_clock"
    /\ IsInitialized(Focus)
    /\ DOMAIN state[Focus].room_clocks = Rooms
    /\ ret.value = state[Focus].room_clocks[ret.room_id]
    /\ ret.value[Focus] = 2
    /\ \E k \in DOMAIN ret.value \ {Focus} : ret.value[k] >= 1
    /\ \E r \in Rooms \ {ret.room_id} : state[Focus].room_clocks[r][Focus] = 1

\* -------------------------------------------------- the message log, directly
\* number of message ids offered to the log
MaxRows == 3

\* The messages offered to add_message: each id comes in several versions,
\* which differ in room, sender, content, clock and creation time.
Drafts ==
    {Message(id, "general", "alice", "hi", [k \in {"alice"} |-> 1], t) :
        id \in 1..MaxRows, t \in 1..MaxTime}
    \cup {Message(id, "dev", "bob", "yo", [k \in {"bob"} |-> 2], t) :
        id \in 1..MaxRows, t \in 1..MaxTime}

\* StorageService.add_message called on the store of p
AddMessageCall(p, message) ==
    /\ messages' = [messages EXCEPT ![p] = AddMessage(@, message)]
    /\ ret' = [op |-> "add_message", message |-> message]
    /\ UNCHANGED <<wsVars, peerRows, state, storage, snapshots, gossipVars, syncVars, shut, now, nextId,
                   pubs, respVars, lastCall>>

\* StorageService.message_exists called on the store of p
MessageExistsCall(p, message_id) ==
    /\ ret' = [op |-> "message_exists", message_id |-> message_id,
               value |-> MessageExists(messages[p], message_id)]
    /\ UNCHANGED sysVars

\* StorageService.get_messages_after called on the store of p
GetMessagesAfterCall(p, room_id, timestamp) ==
    /\ ret' = [op |-> "get_messages_after", room_id |-> room_id, timestamp |-> timestamp,
               value |-> GetMessagesAfter(messages[p], room_id, timestamp)]
    /\ UNCHANGED sysVars

LogNext ==
    \/ \E message \in Drafts : AddMessageCall(Focus, message)
    \/ \E message_id \in 1..MaxRows : MessageExistsCall(Focus, message_id)
    \/ \E room_id \in Rooms : \E timestamp \in 0..MaxTime :
            GetMessagesAfterCall(Focus, room_id, timestamp)

LogSpec == Init /\ [][LogNext]_vars

\* C18: add_message of a stored id changes nothing and add_message of a new
\* id stores exactly that row; every stored row stays in the log as it is
\* (message_exists stays true; content, room, sender, clock and created_at
\* stay the same), and no id is ever stored twice.
LogAppendOnly ==
    [][\A p \in Nodes :
        /\ \A id \in Ids(messages[p]) :
                /\ MessageExists(messages'[p], id)
                /\ Row(messages'[p], id) = Row(messages[p], id)
        /\ Cardinality(Ids(messages'[p])) = Len(messages'[p])
        /\ p = Focus /\ ret'.op = "add_message" =>
                IF MessageExists(messages[p], ret'.message.message_id)
                THEN messages'[p] = messages[p]
                ELSE /\ Ids(messages'[p]) = Ids(messages[p]) \cup {ret'.message.message_id}
                     /\ Row(messages'[p], ret'.message.message_id) = ret'.message
        /\ p = Focus /\ ret'.op = "message_exists" =>
                ret'.value = (ret'.message_id \in Ids(messages[p]))
      ]_vars

\* C18, its case: the log is full and the last add_message offered a stored
\* id with another room, sender, content, clock and creation time; the
\* stored row is the one of the first add.
LogAppendOnlyCase ==
    /\ ret.op = "add_message"
    /\ Len(messages[Focus]) = MaxRows
    /\ MessageExists(messages[Focus], ret.message.message_id)
    /\ LET row == Row(messages[Focus], ret.message.message_id)
       IN  /\ row.room_id # ret.message.room_id
           /\ row.sender_id # ret.message.sender_id
           /\ row.content # ret.message.content
           /\ row.vector_clock # ret.message.vector_clock
           /\ row.created_at # ret.message.created_at

\* C20: get_messages_after(room_id, t) returns each stored message of the
\* room with created_at > t exactly once and nothing else, in ascending
\* order of created_at.
MessagesAfterExact ==
    ret.op = "get_messages_after" =>
        LET v == ret.value
            tbl == messages[Focus]
        IN  /\ {v[i] : i \in DOMAIN v} =
                    {tbl[i] : i \in {j \in DOMAIN tbl :
                                        /\ tbl[j].room_id = ret.room_id
                                        /\ tbl[j].created_at > ret.timestamp}}
            /\ Cardinality({v[i] : i \in DOMAIN v}) = Len(v)
            /\ \A i, j \in DOMAIN v : i < j => v[i].created_at <= v[j].created_at

\* C20, its case: the store holds a message of the room created exactly at
\* t, a later message of another room and a later message of the room; the
\* call returned the last one alone.
MessagesAfterExactCase ==
    /\ ret.op = "get_messages_after"
    /\ Len(ret.value) = 1
    /\ ret.value[1].room_id = ret.room_id
    /\ ret.value[1].created_at > ret.timestamp
    /\ \E i, j \in DOMAIN messages[Focus] :
            /\ messages[Focus][i].room_id = ret.room_id
            /\ messages[Focus][i].created_at = ret.timestamp
            /\ messages[Focus][j].room_id # ret.room_id
            /\ messages[Focus][j].created_at > ret.timestamp

\* ------------------------------------------------------ snapshots, directly
\* the clocks offered to save_snapshot
SnapClocks == {[k \in {"alice"} |-> 1], [k \in {"alice", "bob"} |-> IF k = "alice" THEN 2 ELSE 1]}

\* the next message created in a room: a fresh id, the current time
NewMessage(p, room_id) ==
    Message(Len(messages[p]) + 1, room_id, p, "hi", [k \in {p} |-> 1], now)

\* StorageService.add_message called with a message created now
AddNewMessageCall(p, room_id) ==
    /\ Len(messages[p]) < MaxMsgs
    /\ AddMessageCall(p, NewMessage(p, room_id))

\* StorageService.save_snapshot called on the store of p; `before` is what
\* load_snapshot returned for the room when the call began
SaveSnapshotCall(p, room_id, vector_clock) ==
    /\ snapshots' = [snapshots EXCEPT ![p] = SaveSnapshot(@, room_id, vector_clock, now)]
    /\ ret' = [op |-> "save_snapshot", room_id |-> room_id, vector_clock |-> vector_clock,
               time |-> now, before |-> LoadSnapshot(snapshots[p], room_id)]
    /\ UNCHANGED <<wsVars, peerRows, state, storage, messages, gossipVars, syncVars, shut, now, nextId,
                   pubs, respVars, lastCall>>

\* StorageService.load_snapshot called on the store of p
LoadSnapshotCall(p, room_id) ==
    /\ ret' = [op |-> "load_snapshot", room_id |-> room_id,
               value |-> LoadSnapshot(snapshots[p], room_id)]
    /\ UNCHANGED sysVars

SnapNext ==
    \/ \E room_id \in Rooms : AddNewMessageCall(Focus, room_id)
    \/ \E room_id \in Rooms : \E vector_clock \in SnapClocks :
            SaveSnapshotCall(Focus, room_id, vector_clock)
    \/ \E room_id \in Rooms : LoadSnapshotCall(Focus, room_id)
    \/ Tick

SnapSpec == Init /\ [][SnapNext]_vars

\* all the stored messages of a room
RoomMessages(p, room_id) == SelectSeq(messages[p], LAMBDA row : row.room_id = room_id)

\* C19: a save_snapshot makes load_snapshot of its room return the saved
\* clock with the time of the save, which is not earlier than the time of
\* the snapshot it replaces, and leaves the other rooms' snapshots alone;
\* nothing else changes a snapshot; load_snapshot returns what the last save
\* of the room left, and (None, 0) for a room without one, from which
\* get_messages_after returns all the messages of the room.
SnapshotLastWriteWins ==
    [][/\ ret'.op = "save_snapshot" =>
            /\ LoadSnapshot(snapshots'[Focus], ret'.room_id) = <<ret'.vector_clock, ret'.time>>
            /\ ret'.time >= LoadSnapshot(snapshots[Focus], ret'.room_id)[2]
            /\ ret' # ret => ret'.time = now
            /\ \A room_id \in Rooms \ {ret'.room_id} :
                    LoadSnapshot(snapshots'[Focus], room_id) =
                        LoadSnapshot(snapshots[Focus], room_id)
       /\ ret'.op # "save_snapshot" => snapshots' = snapshots
       /\ ret'.op = "load_snapshot" =>
            /\ ret'.value = LoadSnapshot(snapshots[Focus], ret'.room_id)
            /\ ret'.room_id \notin DOMAIN snapshots[Focus] =>
                    /\ ret'.value = <<None, 0>>
                    /\ GetMessagesAfter(messages[Focus], ret'.room_id, ret'.value[2]) =
                            RoomMessages(Focus, ret'.room_id)
      ]_vars

\* C19, its case: a later save has replaced a room's snapshot by another
\* clock, and the other room, which holds a message, has no snapshot.
SnapshotLastWriteWinsCase ==
    /\ ret.op = "save_snapshot"
    /\ ret.before[1] # None
    /\ ret.before[1] # ret.vector_clock
    /\ ret.before[2] < ret.time
    /\ LoadSnapshot(snapshots[Focus], ret.room_id) = <<ret.vector_clock, ret.time>>
    /\ \E room_id \in Rooms \ DOMAIN snapshots[Focus] : Len(RoomMessages(Focus, room_id)) >= 1

\* ---------------------------------------------- recovery of the known rooms
\* StorageService.get_all_room_ids called on the store of p
GetAllRoomIdsCall(p) ==
    /\ ret' = [op |-> "get_all_room_ids", value |-> GetAllRoomIds(messages[p], snapshots[p])]
    /\ UNCHANGED sysVars

\* A store filled by add_message and save_snapshot, and a node that logs in
\* over it, is killed and logs in again.
RoomsNext ==
    \/ \E room_id \in Rooms : AddNewMessageCall(Focus, room_id)
    \/ \E room_id \in Rooms : \E vector_clock \in SnapClocks :
            SaveSnapshotCall(Focus, room_id, vector_clock)
    \/ GetAllRoomIdsCall(Focus)
    \/ ~IsInitialized(Focus) /\ Initialize(Focus, Focus)
    \/ Crash(Focus)
    \/ Tick

RoomsSpec == Init /\ [][RoomsNext]_vars

\* the rooms with a stored message or a snapshot
KnownRooms(p) ==
    {room_id \in Rooms :
        \/ \E i \in DOMAIN messages[p] : messages[p][i].room_id = room_id
        \/ LoadSnapshot(snapshots[p], room_id)[1] # None}

\* C21: get_all_room_ids returns exactly the rooms with a stored message or
\* a snapshot, and an initialize that makes the node Ready leaves it with a
\* clock for exactly these rooms.
RoomIdsComplete ==
    /\ [](ret.op = "get_all_room_ids" => ret.value = KnownRooms(Focus))
    /\ [][\A p \in Nodes : ~IsInitialized(p) /\ state'[p] # None =>
                DOMAIN state'[p].room_clocks = KnownRooms(p)]_vars

\* C21, its case: the node is Ready over a store where one room has only a
\* snapshot and the other only a message; get_all_room_ids returned both and
\* the snapshot-only room has the snapshot's clock.
RoomIdsCompleteCase ==
    /\ ret.op = "get_all_room_ids"
    /\ ret.value = Rooms
    /\ IsInitialized(Focus)
    /\ \E r1, r2 \in DOMAIN state[Focus].room_clocks :
            /\ r1 \in DOMAIN snapshots[Focus]
            /\ ~\E i \in DOMAIN messages[Focus] : messages[Focus][i].room_id = r1
            /\ \E k \in DOMAIN state[Focus].room_clocks[r1] \ {Focus} :
                    state[Focus].room_clocks[r1][k] >= 1
            /\ r2 \notin DOMAIN snapshots[Focus]
            /\ \E i \in DOMAIN messages[Focus] : messages[Focus][i].room_id = r2

\* ------------------------------------------------- the connection manager
Sockets == {"w1", "w2"}

\* listener tasks created in a run
MaxTasks == 3

\* bus messages handed to listener tasks in a run
MaxHeard == 2

\* del d[k]
Del(d, k) == [x \in DOMAIN d \ {k} |-> d[x]]

\* list.remove(x): the list without the first occurrence of x
Remove(list, x) ==
    LET i == CHOOSE j \in DOMAIN list : list[j] = x /\ \A h \in 1..(j - 1) : list[h] # x
    IN  SubSeq(list, 1, i - 1) \o SubSeq(list, i + 1, Len(list))

\* the sockets connected to some room
Connected == UNION {{active_connections[r][i] : i \in DOMAIN active_connections[r]} :
                        r \in DOMAIN active_connections}

\* ConnectionManager.connect up to `await websocket.accept()`; the socket is
\* a new one
ConnectBegin(websocket, room_id) ==
    /\ websocket \notin Connected
    /\ \A r \in Rooms : <<websocket, r>> \notin accepting
    /\ accepting' = accepting \cup {<<websocket, room_id>>}
    /\ UNCHANGED <<nodeVars, ret, active_connections, pubsub_tasks, listeners, sent, heard>>

\* websocket.accept() raises: connect ends there
ConnectFail(websocket, room_id) ==
    /\ <<websocket, room_id>> \in accepting
    /\ accepting' = accepting \ {<<websocket, room_id>>}
    /\ UNCHANGED <<nodeVars, ret, active_connections, pubsub_tasks, listeners, sent, heard>>

\* a connect that subscribes for every socket it registers
ConnectFinishResubscribing(websocket, room_id) ==
    /\ <<websocket, room_id>> \in accepting
    /\ Len(listeners) < MaxTasks
    /\ accepting' = accepting \ {<<websocket, room_id>>}
    /\ listeners' = Append(listeners, [room_id |-> room_id, pos |-> "created", cancelled |-> FALSE,
                     subscribed |-> FALSE, unsubscribed |-> FALSE])
    /\ pubsub_tasks' = Put(pubsub_tasks, room_id, Len(listeners) + 1)
    /\ active_connections' =
            Put(active_connections, room_id,
                Append(Get(active_connections, room_id, <<>>), websocket))
    /\ UNCHANGED <<nodeVars, ret, sent, heard>>

\* ConnectionManager.connect after accept() returned, with
\* _subscribe_to_redis (which does not suspend) for the first socket of a room
ConnectFinish(websocket, room_id) ==
    /\ <<websocket, room_id>> \in accepting
    /\ accepting' = accepting \ {<<websocket, room_id>>}
    /\ IF room_id \notin DOMAIN active_connections /\ room_id \notin DOMAIN pubsub_tasks
       THEN /\ Len(listeners) < MaxTasks
            /\ listeners' = Append(listeners,
                    [room_id |-> room_id, pos |-> "created", cancelled |-> FALSE,
                     subscribed |-> FALSE, unsubscribed |-> FALSE])
            /\ pubsub_tasks' = Put(pubsub_tasks, room_id, Len(listeners) + 1)
       ELSE UNCHANGED <<listeners, pubsub_tasks>>
    /\ active_connections' =
            Put(active_connections, room_id,
                Append(Get(active_connections, room_id, <<>>), websocket))
    /\ UNCHANGED <<nodeVars, ret, sent, heard>>

\* ConnectionManager.disconnect, with _unsubscribe_from_redis
Disconnect(websocket, room_id) ==
    /\ IF room_id \in DOMAIN active_connections
       THEN LET list == active_connections[room_id]
                rest == IF \E i \in DOMAIN list : list[i] = websocket
                        THEN Remove(list, websocket) ELSE list
            IN  IF rest = <<>>
                THEN /\ active_connections' = Del(active_connections, room_id)
                     /\ IF room_id \in DOMAIN pubsub_tasks
                        THEN /\ listeners' = [listeners EXCEPT
                                    ![pubsub_tasks[room_id]].cancelled = TRUE]
                             /\ pubsub_tasks' = Del(pubsub_tasks, room_id)
                        ELSE UNCHANGED <<listeners, pubsub_tasks>>
                ELSE /\ active_connections' = Put(active_connections, room_id, rest)
                     /\ UNCHANGED <<listeners, pubsub_tasks>>
       ELSE UNCHANGED <<active_connections, listeners, pubsub_tasks>>
    /\ UNCHANGED <<nodeVars, ret, accepting, sent, heard>>

\* ConnectionManager.broadcast_to_local: send_json to a copy of the room's list
BroadcastToLocal(message, room_id) ==
    IF room_id \in DOMAIN active_connections
    THEN LET to == {active_connections[room_id][i] : i \in DOMAIN active_connections[room_id]}
         IN  [w \in DOMAIN sent \cup to |->
                IF w \in to THEN Append(Get(sent, w, <<>>), message) ELSE sent[w]]
    ELSE sent

\* what pubsub.listen() yields: dicts, the confirmation of the subscription
\* and the published payloads (the text of a Message, a JSON text that is
\* not a Message, a text that is not JSON)
Payloads == {[text |-> "message", message_id |-> i] : i \in 1..MaxHeard}
                \cup {[text |-> "not_message", message_id |-> 0],
                      [text |-> "not_json", message_id |-> 0]}

BusMessages == {[type |-> "subscribe", data |-> [text |-> "count", message_id |-> 0]]}
                \cup {[type |-> "message", data |-> payload] : payload \in Payloads}

\* attributes of a dict (its keys are not among them)
DictAttributes == {"get", "items", "keys", "values"}

\* One iteration of `async for message in pubsub.listen()`:
\*   skip       not of type "message"
\*   error      `json.loads(message.data["data"])` raises outside the inner
\*              try (AttributeError: the dict has no attribute `data`; or the
\*              text is not JSON): the outer handler logs and the task ends
\*   unparsed   Message(**data_dict) raises: logged, the loop goes on
\*   broadcast  broadcast_to_local(msg_obj, room_id)
ListenerOutcome(message) ==
    IF message.type # "message" THEN "skip"
    ELSE IF "data" \notin DictAttributes THEN "error"
    ELSE IF message.data.text \notin {"message", "not_message"} THEN "error"
    ELSE IF message.data.text # "message" THEN "unparsed"
    ELSE "broadcast"

\* first step of a listener task, up to its suspension in
\* `await pubsub.subscribe(channel)`
ListenerStart(t) ==
    /\ t \in DOMAIN listeners
    /\ listeners[t].pos = "created" /\ ~listeners[t].cancelled
    /\ listeners' = [listeners EXCEPT ![t].pos = "subscribing", ![t].subscribed = TRUE]
    /\ UNCHANGED <<nodeVars, ret, active_connections, pubsub_tasks, accepting, sent, heard>>

\* subscribe() returns: the task enters the try block and waits in
\* `async for message in pubsub.listen()`
ListenerSubscribed(t) ==
    /\ t \in DOMAIN listeners
    /\ listeners[t].pos = "subscribing" /\ ~listeners[t].cancelled
    /\ listeners' = [listeners EXCEPT ![t].pos = "listening"]
    /\ UNCHANGED <<nodeVars, ret, active_connections, pubsub_tasks, accepting, sent, heard>>

\* the bus hands a message to a subscribed listener task; the n-th message
\* published is the Message with id n
ListenerHear(t, message) ==
    /\ t \in DOMAIN listeners
    /\ listeners[t].pos = "listening" /\ ~listeners[t].cancelled
    /\ Len(heard) < MaxHeard
    /\ message.data.message_id \in {0, Len(heard) + 1}
    /\ LET outcome == ListenerOutcome(message)
           room_id == listeners[t].room_id
       IN  /\ heard' = Append(heard, [task |-> t, room_id |-> room_id, message |-> message,
                                      outcome |-> outcome])
           /\ listeners' = IF outcome = "error"
                           THEN [listeners EXCEPT ![t].pos = "done"] ELSE listeners
           /\ sent' = IF outcome = "broadcast"
                      THEN BroadcastToLocal(message.data.message_id, room_id) ELSE sent
    /\ UNCHANGED <<nodeVars, ret, active_connections, pubsub_tasks, accepting>>

\* the bus fails under the task: subscribe() raises out of listener(), or
\* pubsub.listen() raises and `except Exception` logs it; the task ends
ListenerBusError(t) ==
    /\ t \in DOMAIN listeners
    /\ listeners[t].pos \in {"subscribing", "listening"} /\ ~listeners[t].cancelled
    /\ listeners' = [listeners EXCEPT ![t].pos = "done"]
    /\ UNCHANGED <<nodeVars, ret, active_connections, pubsub_tasks, accepting, sent, heard>>

\* the cancellation reaches the task: before its first step it never runs;
\* in `await pubsub.subscribe(channel)`, which is outside the try block,
\* CancelledError ends the task; at `async for` the handler of CancelledError
\* awaits pubsub.unsubscribe(channel) and the task ends
ListenerCancelled(t) ==
    /\ t \in DOMAIN listeners
    /\ listeners[t].cancelled /\ listeners[t].pos \in {"created", "subscribing", "listening"}
    /\ listeners' = [listeners EXCEPT ![t].pos = "done",
                                      ![t].unsubscribed = listeners[t].pos = "listening"]
    /\ UNCHANGED <<nodeVars, ret, active_connections, pubsub_tasks, accepting, sent, heard>>

FanoutNext ==
    \/ \E websocket \in Sockets, room_id \in Rooms : ConnectBegin(websocket, room_id)
    \/ \E websocket \in Sockets, room_id \in Rooms : ConnectFail(websocket, room_id)
    \/ \E websocket \in Sockets, room_id \in Rooms : ConnectFinish(websocket, room_id)
    \/ \E websocket \in Sockets, room_id \in Rooms : Disconnect(websocket, room_id)
    \/ \E t \in 1..MaxTasks : ListenerStart(t)
    \/ \E t \in 1..MaxTasks : ListenerSubscribed(t)
    \/ \E t \in 1..MaxTasks : ListenerBusError(t)
    \/ \E t \in 1..MaxTasks : \E message \in BusMessages : ListenerHear(t, message)
    \/ \E t \in 1..MaxTasks : ListenerCancelled(t)

FanoutSpec == Init /\ [][FanoutNext]_vars

\* C22: a room has a registered listener task exactly when it has a local
\* listener (and then at least one, and the task is the room's and was not
\* cancelled); the first connect of a room creates one task, a further
\* connect creates none and keeps the registered one, and the disconnect of
\* the last listener cancels the task and unregisters it.
FanoutSubscription ==
    /\ [](/\ DOMAIN pubsub_tasks = DOMAIN active_connections
          /\ \A room_id \in DOMAIN active_connections :
                /\ Len(active_connections[room_id]) >= 1
                /\ pubsub_tasks[room_id] \in DOMAIN listeners
                /\ listeners[pubsub_tasks[room_id]].room_id = room_id
                /\ ~listeners[pubsub_tasks[room_id]].cancelled)
    /\ [][/\ Len(listeners') =
                Len(listeners) + Cardinality(DOMAIN active_connections' \ DOMAIN active_connections)
          /\ \A room_id \in Rooms :
                LET was == room_id \in DOMAIN active_connections
                    is == room_id \in DOMAIN active_connections'
                IN  /\ was /\ is => pubsub_tasks'[room_id] = pubsub_tasks[room_id]
                    /\ ~was /\ is => pubsub_tasks'[room_id] = Len(listeners')
                    /\ was /\ ~is =>
                            /\ listeners'[pubsub_tasks[room_id]].cancelled
                            /\ room_id \notin DOMAIN pubsub_tasks'
         ]_vars

\* C22, its case: the room's first task was cancelled when its last listener
\* left; two sockets have connected since and the room has one task, the
\* second ever created.
FanoutSubscriptionCase ==
    /\ Len(listeners) = 2
    /\ listeners[1].room_id = "general" /\ listeners[1].cancelled
    /\ "general" \in DOMAIN active_connections
    /\ Len(active_connections["general"]) = 2
    /\ pubsub_tasks["general"] = 2
    /\ ~listeners[2].cancelled
    /\ accepting = {}

\* the payload of a bus message is the text of a Message
WellFormed(message) == message.type = "message" /\ message.data.text = "message"

\* the payload of a bus message is not JSON or not a Message
Malformed(message) == message.type = "message" /\ message.data.text # "message"

\* C23 (as claimed): every well-formed payload handed to a subscribed
\* listener task is sent to each socket registered for the task's room at
\* that moment and to no other socket.
FanoutDelivery ==
    [][Len(heard') > Len(heard) /\ WellFormed(heard'[Len(heard')].message) =>
            LET h == heard'[Len(heard')]
                to == IF h.room_id \in DOMAIN active_connections
                      THEN {active_connections[h.room_id][i] :
                                i \in DOMAIN active_connections[h.room_id]}
                      ELSE {}
            IN  \A w \in Sockets :
                    Get(sent', w, <<>>) =
                        IF w \in to
                        THEN Append(Get(sent, w, <<>>), h.message.data.message_id)
                        ELSE Get(sent, w, <<>>)
      ]_vars

\* C24 (as claimed): a malformed payload leaves the listener task of the
\* room listening, so that it hears the payloads that arrive after it.
MalformedSkipped ==
    [][Len(heard') > Len(heard) /\ Malformed(heard'[Len(heard')].message) =>
            listeners'[heard'[Len(heard')].task].pos = "listening"
      ]_vars

\* ------------------------------------------------ the routes, as requests
\* the messages that peers post to the replication endpoint of the node
RemoteMessages ==
    {Message(MaxMsgs + 1, "general", "bob", "hi", [k \in {"bob"} |-> 1], 1),
     Message(MaxMsgs + 2, "general", "carol", "hi",
             [k \in {"alice", "carol"} |-> IF k = "carol" THEN 2 ELSE 1], 1)}

\* a send_message that stores and publishes on a node that is not Ready
SendMessageRequestStoring(p, room_id, content) ==
    IF state[p] # None /\ storage[p]
    THEN SendMessage(p, room_id, content)
    ELSE /\ nextId <= MaxMsgs
         /\ LET new_msg == Message(nextId, room_id, p, content, <<>>, now)
            IN  /\ messages' = [messages EXCEPT ![p] = AddMessage(@, new_msg)]
                /\ pubs' = Publish(p, new_msg)
         /\ nextId' = nextId + 1
         /\ ret' = [op |-> "send_message", room_id |-> room_id, status |-> "created"]
         /\ UNCHANGED <<wsVars, peerRows, state, storage, snapshots, gossipVars, syncVars,
                        shut, now, respVars, lastCall>>

\* POST /messages: HTTP 500 `Node service unavailable` when the state or the
\* storage is missing, routes.send_message otherwise
SendMessageRequest(p, room_id, content) ==
    IF state[p] # None /\ storage[p]
    THEN SendMessage(p, room_id, content)
    ELSE /\ ret' = [op |-> "send_message", room_id |-> room_id, status |-> "unavailable"]
         /\ UNCHANGED sysVars

\* a replication request that merges the message's clock into the clock the
\* room had when it was joined and writes the result back, so that the
\* updates made in between are lost
ReplicationRequestLosing(q, message) ==
    /\ Responded(q, message, ReplicationStatus(q, message))
    /\ IF ReplicationStatus(q, message) = "replicated"
       THEN /\ state' = [state EXCEPT ![q].room_clocks =
                    Put(@, message.room_id, Merge(Put(<<>>, q, 0), message.vector_clock))]
            /\ messages' = [messages EXCEPT ![q] = AddMessage(@, message)]
       ELSE UNCHANGED <<state, messages>>
    /\ ret' = [op |-> "replication", message |-> message,
               status |-> ReplicationStatus(q, message), shut |-> shut[q]]
    /\ UNCHANGED <<wsVars, peerRows, storage, snapshots, gossipVars, syncVars, shut, now,
                   nextId, lastCall, pubs>>

\* POST /replication: the request, its status (HTTP 503 when unavailable)
\* and the position of shutdown() when it was handled
ReplicationRequest(q, message) ==
    /\ ReplicationEndpoint(q, message)
    /\ ret' = [op |-> "replication", message |-> message,
               status |-> ReplicationStatus(q, message), shut |-> shut[q]]
    /\ UNCHANGED <<wsVars, peerRows, storage, snapshots, gossipVars, syncVars, shut, now,
                   nextId, lastCall>>

\* One node under requests of clients and peers while it logs in, shuts
\* down, is killed and logs in again.
RouteNext ==
    \/ ~IsInitialized(Focus) /\ Initialize(Focus, Focus)
    \/ GossipStart(Focus)
    \/ GossipCancelled(Focus)
    \/ ShutdownBegin(Focus)
    \/ ShutdownFinish(Focus)
    \/ Crash(Focus)
    \/ \E room_id \in MeshRooms, content \in Contents : SendMessageRequest(Focus, room_id, content)
    \/ \E message \in RemoteMessages : ReplicationRequest(Focus, message)
    \/ Tick

RouteSpec == Init /\ [][RouteNext]_vars

\* C25: while a node is not Ready no request changes its store, its clocks
\* or its publish count (only a login makes it Ready), and a send or a
\* replication request to it is answered `unavailable`.
UnavailableBeforeInit ==
    [][/\ \A p \in Nodes : ~IsInitialized(p) =>
                /\ messages'[p] = messages[p]
                /\ pubs'[p] = pubs[p]
                /\ firstResp'[p] = firstResp[p] /\ dupResp'[p] = dupResp[p]
                /\ state'[p] # None =>
                        lastCall'[p] = [op |-> "initialize", user_id |-> state'[p].node_id,
                                        outcome |-> "ok"]
       /\ ~IsInitialized(Focus) /\ ret' # ret /\ ret'.op \in {"send_message", "replication"} =>
                /\ ret'.status = "unavailable"
                /\ state' = state /\ nextId' = nextId /\ snapshots' = snapshots
      ]_vars

\* C25, its case: a node that holds a message and has shut down has rejected
\* a replication request for a message it does not hold.
UnavailableBeforeInitCase ==
    /\ ~IsInitialized(Focus)
    /\ lastCall[Focus].op = "shutdown"
    /\ Len(messages[Focus]) >= 1
    /\ ret.op = "replication"
    /\ ret.status = "unavailable"
    /\ ~MessageExists(messages[Focus], ret.message.message_id)

PeerUrls == {"http://bob", "http://carol"}

\* INSERT OR REPLACE INTO room_peers, primary key (room_id, peer_url)
InsertOrReplacePeer(rows, room_id, peer_url, last_seen) ==
    {row \in rows : ~(row.room_id = room_id /\ row.peer_url = peer_url)}
        \cup {[room_id |-> room_id, peer_url |-> peer_url, last_seen |-> last_seen]}

\* conn.close(): what the connection wrote is kept only if it was committed
Close(committed, written, commit_called) == IF commit_called THEN written ELSE committed

\* StorageService.add_peer: the insert, then conn.close() with no commit
AddPeer(rows, room_id, peer_url, current_time) ==
    Close(rows, InsertOrReplacePeer(rows, room_id, peer_url, current_time), FALSE)

\* StorageService.get_peers: the peer_url of each row of the room
GetPeers(rows, room_id) ==
    LET urls == {row.peer_url : row \in {r \in rows : r.room_id = room_id}}
    IN  [u \in urls |-> Cardinality({r \in rows : r.room_id = room_id /\ r.peer_url = u})]

\* StorageService.add_peer called on the store of p
AddPeerCall(p, room_id, peer_url) ==
    /\ peerRows' = [peerRows EXCEPT ![p] = AddPeer(@, room_id, peer_url, now)]
    /\ ret' = [op |-> "add_peer", room_id |-> room_id, peer_url |-> peer_url]
    /\ UNCHANGED <<wsVars, state, storage, messages, snapshots, gossipVars, syncVars, shut,
                   now, nextId, pubs, respVars, lastCall>>

\* StorageService.get_peers called on the store of p: each url with the
\* number of times it is in the list
GetPeersCall(p, room_id) ==
    /\ ret' = [op |-> "get_peers", room_id |-> room_id, value |-> GetPeers(peerRows[p], room_id)]
    /\ UNCHANGED sysVars

\* The store under add_message, add_peer and get_peers.
PeerNext ==
    \/ \E room_id \in Rooms : AddNewMessageCall(Focus, room_id)
    \/ \E room_id \in Rooms, peer_url \in PeerUrls : AddPeerCall(Focus, room_id, peer_url)
    \/ \E room_id \in Rooms : GetPeersCall(Focus, room_id)
    \/ Tick

PeerSpec == Init /\ [][PeerNext]_vars

\* C27 (as claimed): after add_peer(room_id, peer_url) has returned,
\* get_peers(room_id) contains peer_url exactly once.
PeerRegistered ==
    ret.op = "add_peer" =>
        LET listed == GetPeers(peerRows[Focus], ret.room_id)
        IN  ret.peer_url \in DOMAIN listed /\ listed[ret.peer_url] = 1

\* C28: the step of shutdown that clears the state is the one that writes
\* the snapshots, each room's snapshot being the room's clock at that step
\* with the time of the step; no other step writes a snapshot, so that a
\* send or a replication request handled while shutdown awaits the gossip
\* task is in the snapshot and none is handled between the write and the
\* clearing.
SnapshotRaceFree ==
    [][\A p \in Nodes :
        /\ shut[p] = "awaiting" /\ shut'[p] = "idle" /\ task'[p] = "done" =>
                /\ state'[p] = None
                /\ \A room_id \in DOMAIN state[p].room_clocks :
                        LoadSnapshot(snapshots'[p], room_id) =
                            <<state[p].room_clocks[room_id], now>>
        /\ snapshots'[p] # snapshots[p] => IsInitialized(p) /\ state'[p] = None
        /\ shut[p] = "awaiting" /\ shut'[p] = "awaiting" => snapshots'[p] = snapshots[p]
      ]_vars

\* C28, its case: a replication request was accepted while shutdown was
\* awaiting the gossip task; shutdown has completed and the room's snapshot
\* covers the clock of that message and the node's own send.
SnapshotRaceFreeCase ==
    /\ ret.op = "replication" /\ ret.status = "replicated" /\ ret.shut = "awaiting"
    /\ ~IsInitialized(Focus)
    /\ lastCall[Focus].op = "shutdown"
    /\ \E i \in DOMAIN messages[Focus] : messages[Focus][i].sender_id = Focus
    /\ LET clock == LoadSnapshot(snapshots[Focus], ret.message.room_id)[1]
       IN  /\ clock # None
           /\ \A k \in DOMAIN ret.message.vector_clock :
                    k \in DOMAIN clock /\ clock[k] >= ret.message.vector_clock[k]
           /\ clock[Focus] >= 1

\* the clock of a room as get_clock of node p reads it
RoomClock(st, room_id) == GetClock(st, room_id)

\* C29: while the node stays Ready no step lowers a counter of a room's
\* clock; an accepted replication request leaves the room's clock equal to
\* the merge of the clock before it and the message's clock, and a local
\* send raises the node's own counter by exactly one and stamps the message
\* with the resulting clock, whatever requests were handled before.
NoLostClockUpdates ==
    [][IsInitialized(Focus) /\ state'[Focus] # None =>
        /\ \A room_id \in DOMAIN state[Focus].room_clocks :
                /\ room_id \in DOMAIN state'[Focus].room_clocks
                /\ \A k \in DOMAIN state[Focus].room_clocks[room_id] :
                        /\ k \in DOMAIN state'[Focus].room_clocks[room_id]
                        /\ state'[Focus].room_clocks[room_id][k] >=
                                state[Focus].room_clocks[room_id][k]
        /\ ret' # ret /\ ret'.op = "replication" /\ ret'.status = "replicated" =>
                RoomClock(state'[Focus], ret'.message.room_id) =
                    Merge(RoomClock(state[Focus], ret'.message.room_id),
                          ret'.message.vector_clock)
        /\ nextId' = nextId + 1 =>
                LET m == Row(messages'[Focus], nextId)
                    before == RoomClock(state[Focus], m.room_id)
                    after == RoomClock(state'[Focus], m.room_id)
                IN  /\ after[Focus] = before[Focus] + 1
                    /\ \A k \in DOMAIN after \ {Focus} : k \in DOMAIN before /\ after[k] = before[k]
                    /\ m.vector_clock = after
      ]_vars

\* C29, its case: two local sends and two accepted replication requests for
\* the same room; the room's clock counts both sends and covers both remote
\* clocks.
NoLostClockUpdatesCase ==
    /\ IsInitialized(Focus)
    /\ nextId = MaxMsgs + 1
    /\ \A m \in RemoteMessages : MessageExists(messages[Focus], m.message_id)
    /\ lastCall[Focus].op = "initialize"
    /\ state[Focus].room_clocks["general"] =
            [k \in {"alice", "bob", "carol"} |->
                IF k = "alice" THEN MaxMsgs ELSE IF k = "bob" THEN 1 ELSE 2]

\* a task.cancel() on the gossip task by a holder of the task, without stop()
GossipCancel(p) ==
    /\ task[p] \in {"created", "warmup", "push", "sleep"}
    /\ ~cancelReq[p]
    /\ cancelReq' = [cancelReq EXCEPT ![p] = TRUE]
    /\ UNCHANGED <<wsVars, peerRows, state, storage, messages, snapshots, running, task, stopReq,
                   pushTarget, pushQ, cycle, errCaught, syncVars, shut, now, ret, nextId, pubs,
                   respVars, lastCall>>

\* The gossip loop of one node, ended by stop(), by shutdown or by a bare
\* cancellation at any of its suspension points.
EndNext ==
    \/ LoopNext
    \/ GossipCancel(Focus)
    \/ Crash(Focus)

EndSpec == Init /\ [][EndNext]_vars

\* C30: whenever the gossip task of a node has ended, the running flag of
\* its service is false.
EndedNotRunning == \A p \in Nodes : task[p] = "done" => ~running[p]

\* C30, its case: the task was cancelled, without stop(), during a push of a
\* cycle that came after a cycle with a caught error; it has ended with the
\* flag false.
EndedNotRunningCase ==
    /\ task[Focus] = "done"
    /\ cancelReq[Focus] /\ ~stopReq[Focus]
    /\ errCaught[Focus]
    /\ cycle[Focus].status = "cancelled"
    /\ ~running[Focus]


\* C31: a post that raises httpx.HTTPError takes its message off the cycle
\* and nothing else: the next message of the cycle is posted next, the task
\* stays alive with its running flag as it was, and a cycle that completes
\* after such failures has requested every message it started with.
PushErrorIsolation ==
    /\ [][\A p \in Nodes :
            cycle'[p].failed # {} /\ cycle'[p].failed # cycle[p].failed =>
                /\ pushQ[p] # <<>>
                /\ pushQ'[p] = Tail(pushQ[p])
                /\ task'[p] = (IF pushQ'[p] = <<>> THEN "sleep" ELSE "push")
                /\ running'[p] = running[p]]_vars
    /\ [](\A p \in Nodes :
            cycle[p].status = "complete" /\ cycle[p].failed # {} =>
                cycle[p].pending = {} /\ ~cycle[p].stray)

\* C31, its case: the post of the first message of a cycle has failed and the
\* loop, still running, is about to post the second one.
PushErrorIsolationCase ==
    /\ task[Focus] = "push"
    /\ running[Focus]
    /\ cycle[Focus].status = "active"
    /\ cycle[Focus].failed # {}
    /\ pushQ[Focus] # <<>>
    /\ Head(pushQ[Focus]).message_id \notin cycle[Focus].failed


\* ------------------------------------------------ pull-sync, as iterations
\* an item of a response that lacks a required field
BadItem == [message_id |-> MaxMsgs + 1, room_id |-> "general", sender_id |-> "bob"]

\* what a peer's answer may hold: messages of the peers and an item that
\* does not validate
PullItems == RemoteMessages \cup {BadItem}

PullBodies == {<<>>} \cup [1..1 -> PullItems] \cup [1..2 -> PullItems]

\* the outcomes of a GET: it raised, a status other than 200, a body that
\* is not JSON, or a list of items
PullOutcomes ==
    {Fetched(TRUE, 0, FALSE, <<>>), Fetched(FALSE, 500, TRUE, <<>>),
     Fetched(FALSE, 200, FALSE, <<>>)}
    \cup {Fetched(FALSE, 200, TRUE, body) : body \in PullBodies}

\* one iteration of sync_room_messages on a given outcome of its GET
PullStep(p, response) ==
    /\ syncQ[p] # <<>>
    /\ SyncIteration(p, response)
    /\ ret' = [op |-> "get", target |-> Head(syncQ[p]), response |-> response]

\* Focus, Ready, sends and pulls; the answers of its peers are arbitrary.
PullNext ==
    \/ ~IsInitialized(Focus) /\ Initialize(Focus, Focus)
    \/ \E room_id \in MeshRooms, content \in Contents : SendMessage(Focus, room_id, content)
    \/ \E room_id \in MeshRooms :
        \E targets \in Samples(Peers(Focus), Min(Cardinality(Peers(Focus)), SyncFanout)) :
            SyncBegin(Focus, room_id, targets)
    \/ \E response \in PullOutcomes : PullStep(Focus, response)

PullSpec == Init /\ [][PullNext]_vars

\* the ids of the items of a body that validate
ValidIds(body) == {body[i].message_id : i \in {k \in DOMAIN body : Validates(body[k])}}

\* C32: an iteration of the pull never ends the call: whatever the GET gave
\* (an error, a status other than 200, an unreadable body, a list with items
\* that do not validate), the targets left are exactly the remaining ones;
\* the store is untouched by a failed peer, and after a readable answer it
\* holds every valid item of the answer, the invalid ones skipped.
PullFailureIsolation ==
    [][\A p \in Nodes :
        syncQ[p] # <<>> /\ syncQ'[p] # syncQ[p] /\ ret'.op = "get" =>
            LET r == ret'.response
            IN  /\ syncQ'[p] = Tail(syncQ[p])
                /\ IF ~r.raised /\ r.status_code = 200 /\ r.readable
                   THEN Ids(messages'[p]) = Ids(messages[p]) \cup ValidIds(r.body)
                   ELSE messages'[p] = messages[p]]_vars

\* C32, its case: the call has gone through both of its targets, and the
\* answer of the last one had an invalid item before a message that is now
\* the only one stored.
PullFailureIsolationCase ==
    /\ ret.op = "get"
    /\ syncQ[Focus] = <<>>
    /\ syncOk[Focus]
    /\ Len(ret.response.body) = 2
    /\ ~Validates(ret.response.body[1])
    /\ Validates(ret.response.body[2])
    /\ Ids(messages[Focus]) = {ret.response.body[2].message_id}


\* C33: no step of sync_room_messages touches Node State: the sampling of the
\* targets and every iteration, whatever the peer answered, leave each room
\* clock as it was, while the store keeps its rows and may gain new ones.
PullLeavesNodeState ==
    [][\A p \in Nodes :
        syncQ'[p] # syncQ[p] =>
            /\ state'[p] = state[p]
            /\ \A i \in DOMAIN messages[p] :
                \E j \in DOMAIN messages'[p] : messages'[p][j] = messages[p][i]]_vars

\* C33, its case: a pull has stored a message of a sender that the clock of
\* the message's room, unchanged, does not know.
PullLeavesNodeStateCase ==
    /\ ret.op = "get"
    /\ IsInitialized(Focus)
    /\ \E i \in DOMAIN messages[Focus] :
        LET m == messages[Focus][i]
        IN  /\ m.sender_id # Focus
            /\ m.sender_id \notin DOMAIN RoomClock(state[Focus], m.room_id)


\* C34 (as claimed): a listener task that is cancelled after it has called
\* subscribe(), at whatever suspension point the cancellation reaches it,
\* has called unsubscribe() when it ends.
CancelUnsubscribes ==
    [][\A t \in DOMAIN listeners :
        /\ listeners[t].cancelled /\ listeners[t].subscribed
        /\ listeners[t].pos # "done" /\ listeners'[t].pos = "done"
        => listeners'[t].unsubscribed]_vars


\* ------------------------------------------------------ gossip to oneself
\* A node whose peer list spells its own address with a trailing slash
\* sends, runs its push cycles and pulls; one of its peers is up.
SelfNode == "carol"

SelfNext ==
    \/ \E p \in {SelfNode, Focus} : ~IsInitialized(p) /\ Initialize(p, p)
    \/ \E room_id \in MeshRooms, content \in Contents : SendMessage(SelfNode, room_id, content)
    \/ GossipStart(SelfNode)
    \/ \E target \in Peers(SelfNode) : GossipWake(SelfNode, target)
    \/ \E ok \in BOOLEAN : PushStep(SelfNode, ok)
    \/ \E room_id \in MeshRooms :
        \E targets \in Samples(Peers(SelfNode), Min(Cardinality(Peers(SelfNode)), SyncFanout)) :
            SyncBegin(SelfNode, room_id, targets)
    \/ \E ok \in BOOLEAN : SyncStep(SelfNode, ok)

SelfSpec == Init /\ [][SelfNext]_vars

\* C35 (as claimed): no push in progress and no pull target left to query
\* is for the address that the node itself advertises.
SelfExclusion ==
    \A p \in Nodes :
        /\ task[p] = "push" => RStrip(pushTarget[p]) # NodeAddr(p)
        /\ \A i \in DOMAIN syncQ[p] : RStrip(syncQ[p][i]) # NodeAddr(p)


\* ------------------------------------------------- the clock and the log
\* what the peers answer to the pulls of the node: nothing, or one of their
\* messages
CoverOutcomes ==
    {Fetched(TRUE, 0, FALSE, <<>>)}
    \cup {Fetched(FALSE, 200, TRUE, <<message>>) : message \in RemoteMessages}

\* One node under local sends, replication requests and pulls while it logs
\* in, is killed and logs in again.
CoverNext ==
    \/ ~IsInitialized(Focus) /\ Initialize(Focus, Focus)
    \/ Crash(Focus)
    \/ \E room_id \in MeshRooms, content \in Contents : SendMessage(Focus, room_id, content)
    \/ \E message \in RemoteMessages : ReplicationRequest(Focus, message)
    \/ \E room_id \in MeshRooms :
        \E targets \in Samples(Peers(Focus), Min(Cardinality(Peers(Focus)), SyncFanout)) :
            SyncBegin(Focus, room_id, targets)
    \/ \E response \in CoverOutcomes : PullStep(Focus, response)
    \/ Tick

CoverSpec == Init /\ [][CoverNext]_vars

\* C36 (as claimed): while a node is Ready, the clock it holds for a room is
\* pointwise at least the vector clock of every message stored for the room.
ClockCoversLog ==
    \A p \in Nodes :
        IsInitialized(p) /\ storage[p] =>
            \A i \in DOMAIN messages[p] :
                PointwiseLe(messages[p][i].vector_clock,
                            RoomClock(state[p], messages[p][i].room_id))


\* ------------------------------------------------ lifecycle: a failed login
\* where an initialize can raise: in StorageService(db_path), before any
\* attribute is set, or in a call on the store while the rooms are restored
InitStages == {"open", "restore"}

\* LocalNodeService.initialize raising on a node that is not Ready.  A
\* failure at `open` leaves every attribute None.  A failure at `restore`
\* comes after `self._storage = ...` and `self._state = NodeState(...)`: the
\* rooms in `done` were restored before it, _start_gossip is not reached.
InitializeFail(p, user_id, stage, done) ==
    /\ ~IsInitialized(p)
    /\ user_id = p
    /\ task[p] \in {"none", "done"}
    /\ stage \in InitStages
    /\ done \subseteq GetAllRoomIds(messages[p], snapshots[p])
    /\ IF stage = "open"
       THEN /\ done = {}
            /\ UNCHANGED <<state, storage>>
       ELSE /\ storage' = [storage EXCEPT ![p] = TRUE]
            /\ state' = [state EXCEPT ![p] =
                   RestoreRooms(NewNodeState(user_id), done, messages[p], snapshots[p])]
    /\ lastCall' = [lastCall EXCEPT ![p] =
            [op |-> "initialize", user_id |-> user_id, outcome |-> "error"]]
    /\ UNCHANGED <<wsVars, peerRows, messages, snapshots, gossipVars, syncVars, shut, now, ret,
                   nextId, pubs, respVars>>

\* One node that logs in, with logins that fail, sends, shuts down and is
\* killed.  (A shutdown is taken only on a node that has had a gossip task.)
FailNext ==
    \/ ~IsInitialized(Focus) /\ Initialize(Focus, Focus)
    \/ \E stage \in InitStages, done \in SUBSET Rooms : InitializeFail(Focus, Focus, stage, done)
    \/ \E room_id \in Rooms, content \in Contents : SendMessage(Focus, room_id, content)
    \/ task[Focus] # "none" /\ ShutdownBegin(Focus)
    \/ GossipCancelled(Focus)
    \/ ShutdownFinish(Focus)
    \/ Crash(Focus)
    \/ Tick

FailSpec == Init /\ [][FailNext]_vars

\* C37 (as claimed): after an initialize that raised the node is not
\* initialized, and an initialized node has a gossip task that was started
\* for it.
FailedInitializeLeavesNone ==
    \A p \in Nodes :
        /\ lastCall[p].op = "initialize" /\ lastCall[p].outcome = "error" => ~IsInitialized(p)
        /\ IsInitialized(p) => task[p] # "none"


\* C38: between initialize and shutdown, no call of join_room, update_clock
\* or increment_clock removes a room from room_clocks, removes a key from a
\* room's clock or lowers a counter.
RoomClocksMonotone ==
    [][\A p \in Nodes :
        state[p] # None /\ state'[p] # None =>
            \A room_id \in DOMAIN state[p].room_clocks :
                /\ room_id \in DOMAIN state'[p].room_clocks
                /\ \A k \in DOMAIN state[p].room_clocks[room_id] :
                        /\ k \in DOMAIN state'[p].room_clocks[room_id]
                        /\ state'[p].room_clocks[room_id][k] >= state[p].room_clocks[room_id][k]
      ]_vars

\* C38, its case: a room whose clock holds the counters of two other nodes
\* and an own counter raised after they were merged, next to a second room.
RoomClocksMonotoneCase ==
    /\ IsInitialized(Focus)
    /\ ret.op = "increment_clock"
    /\ DOMAIN state[Focus].room_clocks = Rooms
    /\ \E room_id \in Rooms :
        /\ ret.room_id = room_id
        /\ DOMAIN state[Focus].room_clocks[room_id] = {"alice", "bob"}
        /\ state[Focus].room_clocks[room_id]["bob"] = MaxCount
        /\ state[Focus].room_clocks[room_id][Focus] = MaxCount


\* C39 (as claimed): a room with a registered local listener has a
\* registered listener task that has not ended.
ListenerLiveness ==
    \A room_id \in DOMAIN active_connections :
        /\ room_id \in DOMAIN pubsub_tasks
        /\ listeners[pubsub_tasks[room_id]].pos # "done"


\* what initialize(node_id) restores from a messages table and a snapshots
\* table
Restored(node_id, tbl, snaps) ==
    RestoreRooms(NewNodeState(node_id), GetAllRoomIds(tbl, snaps), tbl, snaps)

\* the clocks of st2 dominate the clocks of st1, room by room
Dominates(st2, st1) ==
    \A room_id \in DOMAIN st1.room_clocks :
        /\ room_id \in DOMAIN st2.room_clocks
        /\ PointwiseLe(st1.room_clocks[room_id], st2.room_clocks[room_id])

\* C40, after a graceful shutdown: what the next initialize restores from
\* the store that shutdown leaves is, room by room, the clock that the node
\* held when it stopped.
ShutdownRestoresClocks ==
    [][\A p \in Nodes :
        state[p] # None /\ state'[p] = None /\ lastCall'[p].op = "shutdown" =>
            LET back == Restored(state[p].node_id, messages'[p], snapshots'[p])
            IN  \A room_id \in DOMAIN state[p].room_clocks :
                    /\ room_id \in DOMAIN back.room_clocks
                    /\ back.room_clocks[room_id] = state[p].room_clocks[room_id]]_vars

\* C40, after a crash: a Ready node may be killed in any state and its store
\* stays as it is, so in every state of a Ready node what initialize would
\* restore from the store dominates the clocks that the node holds.
CrashRestoresClocks ==
    \A p \in Nodes :
        IsInitialized(p) /\ storage[p] =>
            Dominates(Restored(state[p].node_id, messages[p], snapshots[p]), state[p])

\* C40 (as claimed): a restart never rolls a clock back, after a graceful
\* shutdown (where it restores the very clocks) and after a crash.
RestartNeverRollsBack == ShutdownRestoresClocks /\ []CrashRestoresClocks

=============================================================================
